---- MODULE Spec2Model ----
(***************************************************************************)
(* Model of the Kalshi research pipeline: the state record                 *)
(* (graph/state.py), the validators (graph/validators.py), the eight node  *)
(* functions (graph/nodes.py), the ticker extractor and the market fetch   *)
(* (graph/kalshi_api.py) and the orchestrator loop (graph/workflow.py).    *)
(*                                                                         *)
(* Conventions.  Python None of an Optional[str] field is the string       *)
(* None below; list fields hold sequences.  Text that goes through the     *)
(* ticker extractor is spelled out as a sequence of one-character strings  *)
(* by Chars.  Probabilities and prices are integers in units of 1/100000.  *)
(* The external collaborators (skill file, model call, HTTP fetch) are     *)
(* nondeterministic choices made inside the action of the stage that calls *)
(* them.                                                                   *)
(*                                                                         *)
(* Specifications.  Spec is the whole workflow; GatewaySpec is stages 1    *)
(* and 2 over a grid of gateway prices; ValidatorSpec and TickerSpec call  *)
(* the validators and the ticker extractor on their own (arg, ret).        *)
(***************************************************************************)
EXTENDS Integers, Sequences, FiniteSets, TLC

VARIABLES
    pc,          \* position of ResearchWorkflow.run
    idx,         \* 1-based index into self.steps of the iteration to run next
    state,       \* the KalshiResearchState object of the current run
    personas,    \* self.personas of the workflow object
    runs,        \* number of calls of run() made on the workflow object
    invoked,     \* node functions called so far in this run, in call order
    modelCalls,  \* stages whose call_claude was dispatched, in call order
    gatewayCalls,\* number of fetch_market calls in this run
    trace,       \* per invoked stage: the branch its node function ended on, the
                 \* exception that left it and the response it parsed
    escaped,     \* exception class that left run(), or NoExc
    arg,         \* argument of the function called on its own, outside run()
    ret          \* what that function returned or raised

vars == <<pc, idx, state, personas, runs, invoked, modelCalls, gatewayCalls, trace,
          escaped, arg, ret>>

\* ------------------------------------------------------------------ values

None == "<None>"

NoExc == "<no exception>"

\* Python truthiness of an Optional[str] value.
TruthyStr(v) == v /= None /\ v /= ""

\* Python truthiness of a list value.
TruthyList(l) == l /= <<>>

\* dict.get(key, default) on a parsed JSON object.
Get(obj, key, default) == IF key \in DOMAIN obj THEN obj[key] ELSE default

\* ------------------------------------------------- text as character lists

UpperLetters == <<"A","B","C","D","E","F","G","H","I","J","K","L","M",
                  "N","O","P","Q","R","S","T","U","V","W","X","Y","Z">>

LowerLetters == <<"a","b","c","d","e","f","g","h","i","j","k","l","m",
                  "n","o","p","q","r","s","t","u","v","w","x","y","z">>

Digits == {"0","1","2","3","4","5","6","7","8","9"}

Whitespace == {" ", "\t", "\n"}

Range(f) == {f[i] : i \in DOMAIN f}

IsUpperLetter(c) == c \in Range(UpperLetters)

IsLowerLetter(c) == c \in Range(LowerLetters)

\* \w of the re module, on the characters the model uses.
IsWordChar(c) == IsUpperLetter(c) \/ IsLowerLetter(c) \/ c \in Digits \/ c = "_"

\* str.upper() on one character.
UpperChar(c) ==
    IF IsLowerLetter(c)
    THEN UpperLetters[CHOOSE i \in DOMAIN LowerLetters : LowerLetters[i] = c]
    ELSE c

\* str.upper()
Upper(s) == [i \in DOMAIN s |-> UpperChar(s[i])]

RECURSIVE LStrip(_)
LStrip(s) == IF s /= <<>> /\ Head(s) \in Whitespace THEN LStrip(Tail(s)) ELSE s

RECURSIVE RStrip(_)
RStrip(s) ==
    IF s /= <<>> /\ s[Len(s)] \in Whitespace
    THEN RStrip(SubSeq(s, 1, Len(s) - 1))
    ELSE s

\* str.strip()
Strip(s) == RStrip(LStrip(s))

\* str.startswith(prefix)
StartsWith(s, prefix) ==
    Len(s) >= Len(prefix) /\ SubSeq(s, 1, Len(prefix)) = prefix

\* Index of the first character of s, from position i on, that is in set cs;
\* Len(s) + 1 when there is none.
RECURSIVE FindFrom(_, _, _)
FindFrom(s, i, cs) ==
    IF i > Len(s) THEN Len(s) + 1
    ELSE IF s[i] \in cs THEN i
    ELSE FindFrom(s, i + 1, cs)

\* The extractor's answer None.
NoTicker == <<>>

\* urlparse(url).path for scheme://netloc/path?query#fragment texts.
UrlPath(url) ==
    LET colon   == FindFrom(url, 1, {":"})
        hasSch  == /\ colon <= Len(url)
                   /\ colon > 1
                   /\ \A i \in 1..(colon - 1) :
                          IsUpperLetter(url[i]) \/ IsLowerLetter(url[i])
        rest    == IF hasSch THEN SubSeq(url, colon + 1, Len(url)) ELSE url
        hasLoc  == StartsWith(rest, <<"/", "/">>)
        locEnd  == FindFrom(rest, 3, {"/", "?", "#"})
        afterL  == IF hasLoc THEN SubSeq(rest, locEnd, Len(rest)) ELSE rest
        pathEnd == FindFrom(afterL, 1, {"?", "#"})
    IN  SubSeq(afterL, 1, pathEnd - 1)

\* The last non-empty element of path.split('/'), <<>> when there is none.
RECURSIVE LastSegment(_)
LastSegment(path) ==
    IF path = <<>> THEN <<>>
    ELSE IF path[Len(path)] = "/" THEN LastSegment(SubSeq(path, 1, Len(path) - 1))
    ELSE LET slashes == {i \in DOMAIN path : path[i] = "/"}
             from    == IF slashes = {} THEN 1
                        ELSE 1 + CHOOSE i \in slashes : \A j \in slashes : j <= i
         IN  SubSeq(path, from, Len(path))

extract_ticker_from_url(url) ==
    LET ticker == LastSegment(UrlPath(url))
    IN  IF ticker = <<>> THEN NoTicker
        ELSE IF \A i \in DOMAIN ticker :
                    \/ IsUpperLetter(ticker[i]) \/ IsLowerLetter(ticker[i])
                    \/ ticker[i] \in Digits \/ ticker[i] = "-"
             THEN Upper(ticker)
             ELSE NoTicker

\* [A-Z0-9-]
IsTickerChar(c) == IsUpperLetter(c) \/ c \in Digits \/ c = "-"

common_words ==
    { <<"T","H","E">>, <<"A","N","D">>, <<"F","O","R">>, <<"T","H","I","S">>,
      <<"W","I","L","L">>, <<"N","O","T">>, <<"Y","E","S">>,
      <<"M","A","R","K","E","T">> }

\* \b between positions i and i + 1 of s (i = 0: before the first character).
WordBoundary(s, i) ==
    (i >= 1 /\ i <= Len(s) /\ IsWordChar(s[i]))
        /= (i + 1 <= Len(s) /\ IsWordChar(s[i + 1]))

\* End of the match of \b([A-Z][A-Z0-9-]{2,})\b starting at position i of s,
\* 0 when the pattern does not match there.
TickerMatchEnd(s, i) ==
    IF ~(i <= Len(s) /\ IsUpperLetter(s[i]) /\ WordBoundary(s, i - 1)) THEN 0
    ELSE LET stop == FindFrom(s, i + 1, {s[j] : j \in DOMAIN s} \ 
                                        {c \in Range(s) : IsTickerChar(c)})
             ends == {e \in (i + 2)..(stop - 1) : WordBoundary(s, e)}
         IN  IF ends = {} THEN 0
             ELSE CHOOSE e \in ends : \A f \in ends : f <= e

\* The first match of re.findall(ticker_pattern, s), from position i on, that
\* is not a common word; NoTicker when there is none.
RECURSIVE FirstTicker(_, _)
FirstTicker(s, i) ==
    IF i > Len(s) THEN NoTicker
    ELSE LET e == TickerMatchEnd(s, i)
         IN  IF e = 0 THEN FirstTicker(s, i + 1)
             ELSE IF SubSeq(s, i, e) \notin common_words THEN SubSeq(s, i, e)
             ELSE FirstTicker(s, e + 1)

\* Longest text accepted as a direct ticker.
MaxTickerLen == 50

\* An extractor without the test for a text that is a ticker as it stands.
extract_ticker_from_input_pattern_only(text) ==
    LET user_input == Strip(text)
    IN  IF StartsWith(user_input, <<"h","t","t","p">>)
        THEN extract_ticker_from_url(user_input)
        ELSE FirstTicker(Upper(user_input), 1)

extract_ticker_from_input(text) ==
    LET user_input == Strip(text)
    IN  IF StartsWith(user_input, <<"h","t","t","p">>)
        THEN extract_ticker_from_url(user_input)
        ELSE IF /\ user_input /= <<>>
                /\ \A i \in DOMAIN user_input : IsTickerChar(UpperChar(user_input[i]))
                /\ Len(user_input) <= MaxTickerLen
             THEN Upper(user_input)
             ELSE FirstTicker(Upper(user_input), 1)

\* Spelling of the texts the model passes to the extractor.
Chars(s) ==
    CASE s = ""         -> <<>>
      [] s = "   "      -> <<" ", " ", " ">>
      [] s = "KXBTC-1"  -> <<"K","X","B","T","C","-","1">>
      [] s = "is it"    -> <<"i","s"," ","i","t">>
      [] s = "http://k.co/m/kx-2"
                        -> <<"h","t","t","p",":","/","/","k",".","c","o","/",
                             "m","/","k","x","-","2">>
      [] s = "the kx-3 market"
                        -> <<"t","h","e"," ","k","x","-","3"," ",
                             "m","a","r","k","e","t">>


\* ------------------------------------------------------------ state record

\* KalshiResearchState(user_market_input = market_input): every other field
\* at its dataclass default.
KalshiResearchState(market_input) ==
    [ user_market_input       |-> market_input,
      market_title            |-> None,
      market_url_or_id        |-> None,
      input_validation_error  |-> None,
      resolution_criteria     |-> None,
      expiration_date         |-> None,
      market_odds             |-> <<>>,
      research_summary        |-> None,
      sources                 |-> <<>>,
      estimated_probabilities |-> <<>>,
      confidence_level        |-> None,
      pricing_comparison      |-> <<>>,
      edge_analysis           |-> None,
      persona_recommendations |-> <<>>,
      scenarios               |-> <<>>,
      final_output            |-> None,
      current_step            |-> "not_started",
      errors                  |-> <<>> ]

DEFAULT_PERSONAS ==
    << "risk_averse", "risk_seeking", "news_driven",
       "macro_thinker", "casual_participant", "data_analyst" >>

\* ------------------------------------------------------------- validators
\* A validator's outcome: exc = NoExc when it returns, "ValidationError" with
\* the message when it raises one, another class when evaluating it raises
\* something else (a missing key of a list entry).

Pass == [exc |-> NoExc, msg |-> ""]

ValidationError(m) == [exc |-> "ValidationError", msg |-> m]

KeyError(k) == [exc |-> "KeyError", msg |-> k]

\* An input check that does not trim.
validate_user_input_nostrip(s) ==
    IF s.user_market_input = ""
    THEN ValidationError("No market input provided. Please provide a Kalshi market URL, ID, or description.")
    ELSE Pass

validate_user_input(s) ==
    IF s.user_market_input = "" \/ Strip(Chars(s.user_market_input)) = <<>>
    THEN ValidationError("No market input provided. Please provide a Kalshi market URL, ID, or description.")
    ELSE Pass

validate_market_ingested(s) ==
    IF TruthyStr(s.input_validation_error)
    THEN ValidationError("Market input validation failed: " \o s.input_validation_error)
    ELSE IF ~TruthyStr(s.market_title)
    THEN ValidationError("Market title not extracted. Cannot proceed without identified market.")
    ELSE Pass

validate_market_parsed(s) ==
    IF ~TruthyStr(s.resolution_criteria)
    THEN ValidationError("Resolution criteria not extracted. Cannot research without knowing what resolves the market.")
    ELSE IF ~TruthyList(s.market_odds)
    THEN ValidationError("Market odds not extracted. Cannot proceed without current pricing.")
    ELSE Pass

\* A research check that looks at the summary alone.
validate_research_complete_summary_only(s) ==
    IF ~TruthyStr(s.research_summary)
    THEN ValidationError("Research summary missing. Cannot estimate probabilities without research.")
    ELSE Pass

validate_research_complete(s) ==
    IF ~TruthyStr(s.research_summary)
    THEN ValidationError("Research summary missing. Cannot estimate probabilities without research.")
    ELSE IF ~TruthyList(s.sources)
    THEN ValidationError("No sources provided. Research must cite verifiable sources.")
    ELSE Pass

\* sum(p["estimated_probability"] for p in l), in units of 1/100000.
RECURSIVE SumEstimated(_)
SumEstimated(l) ==
    IF l = <<>> THEN 0 ELSE Head(l).estimated_probability + SumEstimated(Tail(l))

\* Bounds of the accepted sum, 0.95 and 1.05 in units of 1/100000.
SumLow == 95000

SumHigh == 105000

\* A check of the estimates that looks at the confidence label before the sum.
validate_probabilities_estimated_confidence_first(s) ==
    IF ~TruthyList(s.estimated_probabilities)
    THEN ValidationError("No probability estimates. Cannot analyze mispricing without estimates.")
    ELSE IF ~TruthyStr(s.confidence_level)
    THEN ValidationError("Confidence level not specified. Must indicate low/medium/high confidence.")
    ELSE IF \E i \in DOMAIN s.estimated_probabilities :
                "estimated_probability" \notin DOMAIN s.estimated_probabilities[i]
    THEN KeyError("estimated_probability")
    ELSE IF ~(SumLow <= SumEstimated(s.estimated_probabilities)
              /\ SumEstimated(s.estimated_probabilities) <= SumHigh)
    THEN ValidationError("Probability estimates sum to {total:.2f}, should be ~1.0. Please revise estimates to ensure they form a valid probability distribution.")
    ELSE Pass

validate_probabilities_estimated(s) ==
    IF ~TruthyList(s.estimated_probabilities)
    THEN ValidationError("No probability estimates. Cannot analyze mispricing without estimates.")
    ELSE IF \E i \in DOMAIN s.estimated_probabilities :
                "estimated_probability" \notin DOMAIN s.estimated_probabilities[i]
    THEN KeyError("estimated_probability")
    ELSE IF ~(SumLow <= SumEstimated(s.estimated_probabilities)
              /\ SumEstimated(s.estimated_probabilities) <= SumHigh)
    THEN ValidationError("Probability estimates sum to {total:.2f}, should be ~1.0. Please revise estimates to ensure they form a valid probability distribution.")
    ELSE IF ~TruthyStr(s.confidence_level)
    THEN ValidationError("Confidence level not specified. Must indicate low/medium/high confidence.")
    ELSE Pass

validate_mispricing_analyzed(s) ==
    IF ~TruthyList(s.pricing_comparison)
    THEN ValidationError("Pricing comparison missing. Cannot make recommendations without mispricing analysis.")
    ELSE IF ~TruthyStr(s.edge_analysis)
    THEN ValidationError("Edge analysis missing. Must explain potential edges before recommendations.")
    ELSE Pass

\* A coverage check without the test for an empty recommendation list.
validate_personas_covered_no_empty_test(s, required_personas) ==
    IF \E i \in DOMAIN s.persona_recommendations :
           "persona" \notin DOMAIN s.persona_recommendations[i]
    THEN KeyError("persona")
    ELSE LET covered_personas == {r.persona : r \in Range(s.persona_recommendations)}
             missing          == Range(required_personas) \ covered_personas
         IN  IF missing /= {}
             THEN ValidationError("Missing recommendations for personas: {missing}")
             ELSE Pass

validate_personas_covered(s, required_personas) ==
    IF ~TruthyList(s.persona_recommendations)
    THEN ValidationError("No persona recommendations generated.")
    ELSE IF \E i \in DOMAIN s.persona_recommendations :
                "persona" \notin DOMAIN s.persona_recommendations[i]
    THEN KeyError("persona")
    ELSE LET covered_personas == {r.persona : r \in Range(s.persona_recommendations)}
             missing          == Range(required_personas) \ covered_personas
         IN  IF missing /= {}
             THEN ValidationError("Missing recommendations for personas: {missing}")
             ELSE Pass

\* A scenario check that also rejects a type outside the three labels.
validate_scenarios_complete_exact(s) ==
    IF ~TruthyList(s.scenarios)
    THEN ValidationError("No scenarios generated. Must include best/worst/most-likely scenarios.")
    ELSE IF \E i \in DOMAIN s.scenarios : "type" \notin DOMAIN s.scenarios[i]
    THEN KeyError("type")
    ELSE LET scenario_types == {x.type : x \in Range(s.scenarios)}
             required_types == {"best_case", "worst_case", "most_likely"}
         IN  IF scenario_types /= required_types
             THEN ValidationError("Missing scenario types: {missing}")
             ELSE Pass

validate_scenarios_complete(s) ==
    IF ~TruthyList(s.scenarios)
    THEN ValidationError("No scenarios generated. Must include best/worst/most-likely scenarios.")
    ELSE IF \E i \in DOMAIN s.scenarios : "type" \notin DOMAIN s.scenarios[i]
    THEN KeyError("type")
    ELSE LET scenario_types == {x.type : x \in Range(s.scenarios)}
             required_types == {"best_case", "worst_case", "most_likely"}
             missing        == required_types \ scenario_types
         IN  IF missing /= {}
             THEN ValidationError("Missing scenario types: {missing}")
             ELSE Pass

\* The first of the outcomes in l that is not Pass, Pass when all are.
RECURSIVE FirstFailure(_)
FirstFailure(l) ==
    IF l = <<>> THEN Pass
    ELSE IF Head(l).exc /= NoExc THEN Head(l)
    ELSE FirstFailure(Tail(l))

\* A composite check that looks at the scenarios before the estimates.
validate_ready_for_output_scenarios_early(s, required_personas) ==
    FirstFailure(<< validate_market_ingested(s),
                    validate_market_parsed(s),
                    validate_research_complete(s),
                    validate_scenarios_complete(s),
                    validate_probabilities_estimated(s),
                    validate_mispricing_analyzed(s),
                    validate_personas_covered(s, required_personas) >>)

validate_ready_for_output(s, required_personas) ==
    FirstFailure(<< validate_market_ingested(s),
                    validate_market_parsed(s),
                    validate_research_complete(s),
                    validate_probabilities_estimated(s),
                    validate_mispricing_analyzed(s),
                    validate_personas_covered(s, required_personas),
                    validate_scenarios_complete(s) >>)

\* ------------------------------------------------------ market data fetch
\* reply is what the HTTP GET of fetch_market meets: kind "http_404",
\* "http_error" (another status raise_for_status rejects),
\* "transport_error" (any other RequestException), "bad_body" (a 200 whose
\* body response.json() cannot decode) or "ok" with the decoded body.
\* The outcome has exc = NoExc and the market data, or the exception raised.
\* Of KalshiMarketData the model keeps the fields market_parser_node reads;
\* a price key that is absent, null or not a number is an absent key here.

to_float(market, key) == IF key \in DOMAIN market THEN market[key] ELSE 0

fetch_market(ticker, reply) ==
    IF reply.kind = "http_404"
    THEN [exc |-> "KalshiAPIError", msg |-> "Market '{ticker}' not found on Kalshi"]
    ELSE IF reply.kind = "http_error"
    THEN [exc |-> "KalshiAPIError", msg |-> "Kalshi API error: {e}"]
    ELSE IF reply.kind = "transport_error"
    THEN [exc |-> "KalshiAPIError", msg |-> "Failed to connect to Kalshi API: {e}"]
    ELSE IF reply.kind = "bad_body"
    THEN [exc |-> "JSONDecodeError", msg |-> "Expecting value"]
    ELSE LET market == Get(reply.body, "market", <<>>)
         IN  IF market = <<>>
             THEN [exc |-> "KalshiAPIError", msg |-> "No market data returned for ticker '{ticker}'"]
             ELSE LET expected == Get(market, "expected_expiration_time", None)
                  IN  [ exc  |-> NoExc,
                        msg  |-> "",
                        data |->
                          [ title           |-> Get(market, "title",
                                                    Get(market, "yes_sub_title", "Unknown")),
                            rules_primary   |-> Get(market, "rules_primary", ""),
                            rules_secondary |-> Get(market, "rules_secondary", None),
                            expiration_time |-> IF TruthyStr(expected) THEN expected
                                                ELSE Get(market, "latest_expiration_time", ""),
                            yes_bid         |-> to_float(market, "yes_bid_dollars"),
                            yes_ask         |-> to_float(market, "yes_ask_dollars"),
                            no_bid          |-> to_float(market, "no_bid_dollars"),
                            no_ask          |-> to_float(market, "no_ask_dollars"),
                            last_price      |-> to_float(market, "last_price_dollars") ] ]

\* One dollar in units of 1/100000.
One == 100000

\* One step of the 4th decimal place, in half units.
Step4 == 20

\* round(x, 4) of x = twice / 2 units: the nearest multiple of 0.0001.  When
\* x lies halfway between two of them the decimal value is a tie and round()
\* goes to the side on which the binary value of the float lies: tie ("up" or
\* "down") says which.
Round4(twice, tie) ==
    LET below == (twice \div Step4) * Step4
        rest  == twice - below
    IN  IF 2 * rest < Step4 THEN below \div 2
        ELSE IF 2 * rest > Step4 THEN (below + Step4) \div 2
        ELSE IF tie = "up" THEN (below + Step4) \div 2
        ELSE below \div 2

\* A midpoint that leaves out the bid.
BidAskMid_ask_only(bid, ask) == 2 * ask

\* (bid + ask) / 2, in half units.
BidAskMid(bid, ask) == bid + ask

\* A No price of 0 when there is no last price either.
LastNo_none_without_last(last_price) ==
    IF last_price = 0 THEN 0 ELSE 2 * (One - last_price)

\* A No price taken to be the last price itself.
LastNo_same(last_price) == 2 * last_price

\* 1 - market_data.last_price, in half units.
LastNo(last_price) == 2 * (One - last_price)

\* An override that fires as soon as the midpoint rounds to 0.
LastPriceOverride_rounded(yes_mid, last_price) ==
    2 * yes_mid < Step4 /\ 2 * yes_mid > -Step4 /\ last_price /= 0

\* yes_mid == 0 and market_data.last_price: the test is made on the midpoint
\* before it is rounded.
LastPriceOverride(yes_mid, last_price) == yes_mid = 0 /\ last_price /= 0

\* The sides of the ties of a reply whose midpoints are none.
NoTies == [yes |-> "up", no |-> "up"]

\* The two entries of market_odds, from the midpoints in half units; ties
\* gives the side of the tie of the Yes and of the No midpoint.
OddsFromData(d, ties) ==
    LET yes0 == IF d.yes_ask /= 0 THEN BidAskMid(d.yes_bid, d.yes_ask)
                ELSE 2 * d.last_price
        no0  == IF d.no_ask /= 0 THEN BidAskMid(d.no_bid, d.no_ask)
                ELSE LastNo(d.last_price)
        over == LastPriceOverride(yes0, d.last_price)
        yes_mid == IF over THEN 2 * d.last_price ELSE yes0
        no_mid  == IF over THEN 2 * (One - d.last_price) ELSE no0
    IN  << [ outcome |-> "Yes", implied_probability |-> Round4(yes_mid, ties.yes),
             current_price |-> Round4(yes_mid, ties.yes) ],
           [ outcome |-> "No", implied_probability |-> Round4(no_mid, ties.no),
             current_price |-> Round4(no_mid, ties.no) ] >>

\* ------------------------------------------------------- model responses

\* parse_json_response: exc = "ValueError" when no JSON can be extracted
\* (json.JSONDecodeError is a ValueError); otherwise the decoded value, which
\* is a dict (isdict) or another JSON value.
\* A parser that reads a text without JSON as the empty object.
parse_json_response_lenient(response) ==
    [exc |-> NoExc, msg |-> "", isdict |-> response.kind \in {"object", "unparseable", "markdown"},
     value |-> IF response.kind = "object" THEN response.obj ELSE <<>>]

parse_json_response(response) ==
    IF response.kind \in {"unparseable", "markdown"}
    THEN [exc |-> "ValueError", msg |-> "Could not parse JSON from response: {response}"]
    ELSE [exc |-> NoExc, msg |-> "", isdict |-> response.kind = "object",
          value |-> IF response.kind = "object" THEN response.obj ELSE <<>>]

\* A final stage without the markdown fallback.
LooksLikeMarkdown_never(response) == FALSE

\* response.strip().startswith("#")
LooksLikeMarkdown(response) == response.kind = "markdown"

\* ------------------------------------------------------- node outcomes
\* What a call of a node function leaves: the state object as mutated, the
\* exception that left the function (NoExc when it returned), whether
\* call_claude and fetch_market were called, and the branch it ended on.

Returned(s, path, mc, gc) ==
    [st |-> s, exc |-> NoExc, msg |-> "", mcalls |-> mc, gcalls |-> gc, path |-> path]

Raised(s, cls, m, mc, gc) ==
    [st |-> s, exc |-> cls, msg |-> m, mcalls |-> mc, gcalls |-> gc, path |-> "fault"]

\* An error log rebuilt from the new message alone.
AppendError_overwrite(s, m) == [s EXCEPT !.errors = << m >>]

\* A log that takes the new message at its head.
AppendError_prepend(s, m) == [s EXCEPT !.errors = << m >> \o @]

\* state.errors.append(m)
AppendError(s, m) == [s EXCEPT !.errors = Append(@, m)]

\* load_skill raising for a missing skill file, then call_claude raising:
\* the exception that leaves the node before a response exists, or NoExc.
SkillFault == [cls |-> "FileNotFoundError", msg |-> "Skill not found: {skill_path}"]

CallFault == [cls |-> "APIError", msg |-> "model call failed"]

NotADict == [cls |-> "AttributeError", msg |-> "object has no attribute 'get'"]

\* ---------------------------------------------------------- node functions
\* env gives what the node's collaborators do in this call: env.skill ("ok"
\* or "missing"), env.call ("ok" or "raise"), env.resp (the model's response
\* text, by shape) and, for market_parser_node, env.http (the gateway reply).

market_ingestor_node(s0, env) ==
    LET s == [s0 EXCEPT !.current_step = "market_ingestor"]
        v == validate_user_input(s)
    IN  IF v.exc = "ValidationError"
        THEN Returned(AppendError([s EXCEPT !.input_validation_error = v.msg], v.msg),
                      "precondition", 0, 0)
        ELSE IF env.skill = "missing" THEN Raised(s, SkillFault.cls, SkillFault.msg, 0, 0)
        ELSE IF env.call = "raise" THEN Raised(s, CallFault.cls, CallFault.msg, 1, 0)
        ELSE LET p == parse_json_response(env.resp)
             IN  IF p.exc = "ValueError"
                 THEN Returned(AppendError(
                          [s EXCEPT !.input_validation_error = "Failed to parse market: " \o p.msg],
                          p.msg), "parse_error", 1, 0)
                 ELSE IF ~p.isdict THEN Raised(s, NotADict.cls, NotADict.msg, 1, 0)
                 ELSE LET result == p.value
                          status == Get(result, "validation_status", None)
                      IN  IF status = "valid"
                          THEN Returned([s EXCEPT
                                   !.market_title = Get(result, "market_title", None),
                                   !.market_url_or_id = Get(result, "market_url_or_id", None)],
                                   "parsed", 1, 0)
                          ELSE IF status = "needs_clarification"
                          THEN Returned([s EXCEPT !.input_validation_error =
                                   Get(result, "validation_message", "Clarification needed")],
                                   "parsed", 1, 0)
                          ELSE Returned([s EXCEPT !.input_validation_error =
                                   Get(result, "validation_message", "Invalid market input")],
                                   "parsed", 1, 0)

\* Lines 182-204 of market_parser_node: the model-based extraction. gc tells
\* whether the gateway was tried before.
MarketParserFallback(s, env, gc) ==
    IF env.skill = "missing" THEN Raised(s, SkillFault.cls, SkillFault.msg, 0, gc)
    ELSE IF env.call = "raise" THEN Raised(s, CallFault.cls, CallFault.msg, 1, gc)
    ELSE LET p == parse_json_response(env.resp)
         IN  IF p.exc = "ValueError"
             THEN Returned(AppendError(s, "Failed to parse market mechanics: " \o p.msg),
                           "parse_error", 1, gc)
             ELSE IF ~p.isdict THEN Raised(s, NotADict.cls, NotADict.msg, 1, gc)
             ELSE Returned([s EXCEPT
                      !.resolution_criteria = Get(p.value, "resolution_criteria", None),
                      !.expiration_date = Get(p.value, "expiration_date", None),
                      !.market_odds = Get(p.value, "market_odds", <<>>)],
                      "parsed", 1, gc)

\* A title taken from the gateway record as it comes.
TitleOr_overwrite(title, old) == title

\* market_data.title or state.market_title
TitleOr(title, old) == IF TruthyStr(title) THEN title ELSE old

\* A gateway branch without its return: the model-based extraction follows.
AfterGateway_fall_through(s, env) == MarketParserFallback(s, env, 1)

\* return state, at the end of the gateway branch.
AfterGateway(s, env) == Returned(s, "gateway", 0, 1)

\* Lines 136-204 of market_parser_node: the ticker, the gateway fetch and
\* what is written from it, else the model-based extraction.
MarketParserBody(s, env) ==
    LET t1     == extract_ticker_from_input(Chars(s.user_market_input))
        ticker == IF t1 = NoTicker /\ TruthyStr(s.market_url_or_id)
                  THEN extract_ticker_from_input(Chars(s.market_url_or_id))
                  ELSE t1
    IN  IF ticker = NoTicker THEN MarketParserFallback(s, env, 0)
        ELSE
        LET f == fetch_market(ticker, env.http)
        IN  IF f.exc = "KalshiAPIError"
            THEN MarketParserFallback(AppendError(s, "Kalshi API: " \o f.msg), env, 1)
            ELSE IF f.exc /= NoExc THEN Raised(s, f.exc, f.msg, 0, 1)
            ELSE
            LET market_data == f.data
            IN  IF TruthyStr(market_data.rules_secondary)
                   /\ market_data.rules_primary = None
                THEN Raised(s, "TypeError", "unsupported operand type(s) for +=", 0, 1)
                ELSE AfterGateway([s EXCEPT
                         !.resolution_criteria =
                             IF TruthyStr(market_data.rules_secondary)
                             THEN market_data.rules_primary
                                  \o "\n\nAdditional terms: "
                                  \o market_data.rules_secondary
                             ELSE market_data.rules_primary,
                         !.expiration_date = market_data.expiration_time,
                         !.market_title = TitleOr(market_data.title, s.market_title),
                         !.market_odds = OddsFromData(market_data,
                                                      Get(env.http, "ties", NoTies))],
                         env)

\* A market_parser_node that does not run its validator.
market_parser_node_nogate(s0, env) ==
    MarketParserBody([s0 EXCEPT !.current_step = "market_parser"], env)

market_parser_node(s0, env) ==
    LET s == [s0 EXCEPT !.current_step = "market_parser"]
        v == validate_market_ingested(s)
    IN  IF v.exc = "ValidationError"
        THEN Returned(AppendError(s, v.msg), "precondition", 0, 0)
        ELSE MarketParserBody(s, env)

independent_researcher_node(s0, env) ==
    LET s == [s0 EXCEPT !.current_step = "independent_researcher"]
        v == validate_market_parsed(s)
    IN  IF v.exc = "ValidationError"
        THEN Returned(AppendError(s, v.msg), "precondition", 0, 0)
        ELSE IF env.skill = "missing" THEN Raised(s, SkillFault.cls, SkillFault.msg, 0, 0)
        ELSE IF env.call = "raise" THEN Raised(s, CallFault.cls, CallFault.msg, 1, 0)
        ELSE LET p == parse_json_response(env.resp)
             IN  IF p.exc = "ValueError"
                 THEN Returned(AppendError(s, "Failed to parse research: " \o p.msg),
                               "parse_error", 1, 0)
                 ELSE IF ~p.isdict THEN Raised(s, NotADict.cls, NotADict.msg, 1, 0)
                 ELSE Returned([s EXCEPT
                          !.research_summary = Get(p.value, "research_summary", None),
                          !.sources = Get(p.value, "sources", <<>>)],
                          "parsed", 1, 0)

probability_estimator_node(s0, env) ==
    LET s == [s0 EXCEPT !.current_step = "probability_estimator"]
        v == validate_research_complete(s)
    IN  IF v.exc = "ValidationError"
        THEN Returned(AppendError(s, v.msg), "precondition", 0, 0)
        ELSE IF \E i \in DOMAIN s.market_odds : "outcome" \notin DOMAIN s.market_odds[i]
        THEN Raised(s, "KeyError", "outcome", 0, 0)
        ELSE IF env.skill = "missing" THEN Raised(s, SkillFault.cls, SkillFault.msg, 0, 0)
        ELSE IF env.call = "raise" THEN Raised(s, CallFault.cls, CallFault.msg, 1, 0)
        ELSE LET p == parse_json_response(env.resp)
             IN  IF p.exc = "ValueError"
                 THEN Returned(AppendError(s, "Failed to parse probability estimates: " \o p.msg),
                               "parse_error", 1, 0)
                 ELSE IF ~p.isdict THEN Raised(s, NotADict.cls, NotADict.msg, 1, 0)
                 ELSE Returned([s EXCEPT
                          !.estimated_probabilities =
                              Get(p.value, "estimated_probabilities", <<>>),
                          !.confidence_level = Get(p.value, "confidence_level", None)],
                          "parsed", 1, 0)

mispricing_analyst_node(s0, env) ==
    LET s == [s0 EXCEPT !.current_step = "mispricing_analyst"]
        v == validate_probabilities_estimated(s)
    IN  IF v.exc = "ValidationError"
        THEN Returned(AppendError(s, v.msg), "precondition", 0, 0)
        ELSE IF v.exc /= NoExc THEN Raised(s, v.exc, v.msg, 0, 0)
        ELSE IF env.skill = "missing" THEN Raised(s, SkillFault.cls, SkillFault.msg, 0, 0)
        ELSE IF env.call = "raise" THEN Raised(s, CallFault.cls, CallFault.msg, 1, 0)
        ELSE LET p == parse_json_response(env.resp)
             IN  IF p.exc = "ValueError"
                 THEN Returned(AppendError(s, "Failed to parse mispricing analysis: " \o p.msg),
                               "parse_error", 1, 0)
                 ELSE IF ~p.isdict THEN Raised(s, NotADict.cls, NotADict.msg, 1, 0)
                 ELSE Returned([s EXCEPT
                          !.pricing_comparison = Get(p.value, "pricing_comparison", <<>>),
                          !.edge_analysis = Get(p.value, "edge_analysis", None)],
                          "parsed", 1, 0)

\* A stage 6 that does not run its validator.
persona_recommender_node_nogate(s0, env, required) ==
    LET s == [s0 EXCEPT !.current_step = "persona_recommender"]
    IN  IF env.skill = "missing" THEN Raised(s, SkillFault.cls, SkillFault.msg, 0, 0)
        ELSE IF env.call = "raise" THEN Raised(s, CallFault.cls, CallFault.msg, 1, 0)
        ELSE LET p == parse_json_response(env.resp)
             IN  IF p.exc = "ValueError"
                 THEN Returned(AppendError(s, "Failed to parse persona recommendations: " \o p.msg),
                               "parse_error", 1, 0)
                 ELSE IF ~p.isdict THEN Raised(s, NotADict.cls, NotADict.msg, 1, 0)
                 ELSE Returned([s EXCEPT !.persona_recommendations =
                                   Get(p.value, "persona_recommendations", <<>>)],
                               "parsed", 1, 0)

persona_recommender_node(s0, env, required) ==
    LET s == [s0 EXCEPT !.current_step = "persona_recommender"]
        v == validate_mispricing_analyzed(s)
    IN  IF v.exc = "ValidationError"
        THEN Returned(AppendError(s, v.msg), "precondition", 0, 0)
        ELSE IF env.skill = "missing" THEN Raised(s, SkillFault.cls, SkillFault.msg, 0, 0)
        ELSE IF env.call = "raise" THEN Raised(s, CallFault.cls, CallFault.msg, 1, 0)
        ELSE LET p == parse_json_response(env.resp)
             IN  IF p.exc = "ValueError"
                 THEN Returned(AppendError(s, "Failed to parse persona recommendations: " \o p.msg),
                               "parse_error", 1, 0)
                 ELSE IF ~p.isdict THEN Raised(s, NotADict.cls, NotADict.msg, 1, 0)
                 ELSE Returned([s EXCEPT !.persona_recommendations =
                                   Get(p.value, "persona_recommendations", <<>>)],
                               "parsed", 1, 0)

\* A stage 7 that sets the marker only once its precondition holds.
scenario_analyst_node_marks_late(s0, env) ==
    LET s == [s0 EXCEPT !.current_step = "scenario_analyst"]
    IN  IF ~TruthyList(s0.persona_recommendations)
        THEN Returned(AppendError(s0, "No persona recommendations - cannot proceed to scenarios"),
                      "precondition", 0, 0)
        ELSE IF env.skill = "missing" THEN Raised(s, SkillFault.cls, SkillFault.msg, 0, 0)
        ELSE IF env.call = "raise" THEN Raised(s, CallFault.cls, CallFault.msg, 1, 0)
        ELSE LET p == parse_json_response(env.resp)
             IN  IF p.exc = "ValueError"
                 THEN Returned(AppendError(s, "Failed to parse scenario analysis: " \o p.msg),
                               "parse_error", 1, 0)
                 ELSE IF ~p.isdict THEN Raised(s, NotADict.cls, NotADict.msg, 1, 0)
                 ELSE Returned([s EXCEPT !.scenarios = Get(p.value, "scenarios", <<>>)],
                               "parsed", 1, 0)

scenario_analyst_node(s0, env) ==
    LET s == [s0 EXCEPT !.current_step = "scenario_analyst"]
    IN  IF ~TruthyList(s.persona_recommendations)
        THEN Returned(AppendError(s, "No persona recommendations - cannot proceed to scenarios"),
                      "precondition", 0, 0)
        ELSE IF env.skill = "missing" THEN Raised(s, SkillFault.cls, SkillFault.msg, 0, 0)
        ELSE IF env.call = "raise" THEN Raised(s, CallFault.cls, CallFault.msg, 1, 0)
        ELSE LET p == parse_json_response(env.resp)
             IN  IF p.exc = "ValueError"
                 THEN Returned(AppendError(s, "Failed to parse scenario analysis: " \o p.msg),
                               "parse_error", 1, 0)
                 ELSE IF ~p.isdict THEN Raised(s, NotADict.cls, NotADict.msg, 1, 0)
                 ELSE Returned([s EXCEPT !.scenarios = Get(p.value, "scenarios", <<>>)],
                               "parsed", 1, 0)

\* Lines 443-492 of final_suggester_node: the synthesis after the advisory
\* check.
FinalSuggesterBody(s, env) ==
    IF env.skill = "missing" THEN Raised(s, SkillFault.cls, SkillFault.msg, 0, 0)
    ELSE IF env.call = "raise" THEN Raised(s, CallFault.cls, CallFault.msg, 1, 0)
    ELSE LET p == parse_json_response(env.resp)
         IN  IF p.exc = "ValueError"
             THEN IF LooksLikeMarkdown(env.resp)
                  THEN Returned([s EXCEPT !.final_output = "{response}",
                                          !.current_step = "completed"],
                                "markdown", 1, 0)
                  ELSE Returned([AppendError(s, "Failed to generate final report")
                                    EXCEPT !.current_step = "completed"],
                                "parse_error", 1, 0)
             ELSE IF ~p.isdict THEN Raised(s, NotADict.cls, NotADict.msg, 1, 0)
             ELSE Returned([s EXCEPT !.final_output = Get(p.value, "final_output", None),
                                     !.current_step = "completed"],
                           "parsed", 1, 0)

\* A final stage whose check blocks as the checks of stages 2-6 do.
final_suggester_node_blocking(s0, env, required) ==
    LET s1 == [s0 EXCEPT !.current_step = "final_suggester"]
        v  == validate_ready_for_output(s1, required)
    IN  IF v.exc = "ValidationError"
        THEN Returned(AppendError(s1, "Warning: " \o v.msg), "precondition", 0, 0)
        ELSE IF v.exc /= NoExc THEN Raised(s1, v.exc, v.msg, 0, 0)
        ELSE FinalSuggesterBody(s1, env)

final_suggester_node(s0, env, required) ==
    LET s1 == [s0 EXCEPT !.current_step = "final_suggester"]
        v  == validate_ready_for_output(s1, required)
    IN  IF v.exc = "ValidationError"
        THEN FinalSuggesterBody(AppendError(s1, "Warning: " \o v.msg), env)
        ELSE IF v.exc /= NoExc THEN Raised(s1, v.exc, v.msg, 0, 0)
        ELSE FinalSuggesterBody(s1, env)

\* ------------------------------------------------------ instruction payloads
\* The user_message a node builds for call_claude, as the record of the state
\* values its f-string interpolates (a list passed through json.dumps or
\* ', '.join is the list itself).

IngestorMessage(s) == [user_market_input |-> s.user_market_input]

ParserMessage(s) ==
    [ market_title      |-> s.market_title,
      market_url_or_id  |-> s.market_url_or_id,
      user_market_input |-> s.user_market_input ]

\* A research payload that quotes what the stage itself wrote last.
ResearcherMessage_with_summary(s) ==
    [ market_title        |-> s.market_title,
      resolution_criteria |-> s.resolution_criteria,
      expiration_date     |-> s.expiration_date,
      research_summary    |-> s.research_summary ]

ResearcherMessage(s) ==
    [ market_title        |-> s.market_title,
      resolution_criteria |-> s.resolution_criteria,
      expiration_date     |-> s.expiration_date ]

\* An outcome list that passes the odds entries whole.
Outcomes_with_prices(s) ==
    IF TruthyList(s.market_odds) THEN s.market_odds ELSE << "Yes", "No" >>

\* outcomes = [odds["outcome"] for odds in state.market_odds], else Yes, No.
Outcomes(s) ==
    IF TruthyList(s.market_odds)
    THEN [i \in DOMAIN s.market_odds |-> s.market_odds[i].outcome]
    ELSE << "Yes", "No" >>

EstimatorMessage(s) ==
    [ market_title        |-> s.market_title,
      resolution_criteria |-> s.resolution_criteria,
      outcomes            |-> Outcomes(s),
      research_summary    |-> s.research_summary,
      sources             |-> s.sources ]

AnalystMessage(s) ==
    [ market_title            |-> s.market_title,
      confidence_level        |-> s.confidence_level,
      estimated_probabilities |-> s.estimated_probabilities,
      market_odds             |-> s.market_odds ]

RecommenderMessage(s, required) ==
    [ market_title       |-> s.market_title,
      pricing_comparison |-> s.pricing_comparison,
      edge_analysis      |-> s.edge_analysis,
      personas           |-> required ]

ScenarioMessage(s) ==
    [ market_title        |-> s.market_title,
      resolution_criteria |-> s.resolution_criteria,
      expiration_date     |-> s.expiration_date,
      edge_analysis       |-> s.edge_analysis,
      pricing_comparison  |-> s.pricing_comparison ]

SuggesterMessage(s) ==
    [ market_title            |-> s.market_title,
      market_url_or_id        |-> s.market_url_or_id,
      resolution_criteria     |-> s.resolution_criteria,
      expiration_date         |-> s.expiration_date,
      market_odds             |-> s.market_odds,
      research_summary        |-> s.research_summary,
      sources                 |-> s.sources,
      estimated_probabilities |-> s.estimated_probabilities,
      confidence_level        |-> s.confidence_level,
      pricing_comparison      |-> s.pricing_comparison,
      edge_analysis           |-> s.edge_analysis,
      persona_recommendations |-> s.persona_recommendations,
      scenarios               |-> s.scenarios ]

\* The user_message of the node of step_name on state s.
user_message(step_name, s, required) ==
    CASE step_name = "market_ingestor"        -> IngestorMessage(s)
      [] step_name = "market_parser"          -> ParserMessage(s)
      [] step_name = "independent_researcher" -> ResearcherMessage(s)
      [] step_name = "probability_estimator"  -> EstimatorMessage(s)
      [] step_name = "mispricing_analyst"     -> AnalystMessage(s)
      [] step_name = "persona_recommender"    -> RecommenderMessage(s, required)
      [] step_name = "scenario_analyst"       -> ScenarioMessage(s)
      [] step_name = "final_suggester"        -> SuggesterMessage(s)

\* Number of run() calls explored on one workflow object.
MaxRuns == 2

\* ------------------------------------------- what the collaborators may do

Unparseable == [kind |-> "unparseable"]

Markdown == [kind |-> "markdown"]

NonObject == [kind |-> "nonobject"]

Obj(o) == [kind |-> "object", obj |-> o]

\* The collaborators of one node call: a missing skill file, a model call
\* that raises, or a response out of the given set.
ModelEnvs(responses, http) ==
    { [skill |-> "missing", call |-> "ok", resp |-> Unparseable, http |-> http],
      [skill |-> "ok", call |-> "raise", resp |-> Unparseable, http |-> http] }
    \cup { [skill |-> "ok", call |-> "ok", resp |-> r, http |-> http] : r \in responses }

NoHttp == [kind |-> "unused"]

UserInputs == { "", "   ", "KXBTC-1", "is it" }

PersonaChoices == { DEFAULT_PERSONAS, << "risk_averse" >> }

IngestorResponses ==
    { Unparseable, NonObject, Obj(<<>>),
      Obj([validation_status |-> "valid", market_title |-> "BTC above 100K?",
           market_url_or_id |-> "KXBTC-1"]),
      Obj([validation_status |-> "valid", market_title |-> "BTC above 100K?"]),
      Obj([validation_status |-> "valid"]),
      Obj([validation_status |-> "needs_clarification",
           validation_message |-> "Which market do you mean?"]),
      Obj([validation_status |-> "needs_clarification"]),
      Obj([validation_status |-> "needs_clarification", validation_message |-> ""]),
      Obj([validation_status |-> "invalid", validation_message |-> None]) }

HttpReplies ==
    { [kind |-> "http_404"], [kind |-> "http_error"], [kind |-> "transport_error"],
      [kind |-> "bad_body"],
      [kind |-> "ok", body |-> <<>>],
      [kind |-> "ok", body |-> [market |->
          [title |-> "BTC above 100K on Dec 31?",
           rules_primary |-> "Resolves Yes if BTC closes above 100K.",
           expected_expiration_time |-> "2024-12-31T23:59:00Z",
           yes_bid_dollars |-> 60000, yes_ask_dollars |-> 64000,
           no_bid_dollars |-> 36000, no_ask_dollars |-> 40000,
           last_price_dollars |-> 61000]]],
      [kind |-> "ok", body |-> [market |->
          [title |-> "",
           rules_primary |-> "Resolves Yes if BTC closes above 100K.",
           rules_secondary |-> "Early close possible.",
           latest_expiration_time |-> "2025-01-01T00:00:00Z",
           last_price_dollars |-> 55000]]],
      [kind |-> "ok", body |-> [market |-> [yes_sub_title |-> "BTC"]]],
      [kind |-> "ok", body |-> [market |->
          [title |-> "BTC above 100K on Dec 31?", rules_primary |-> None,
           rules_secondary |-> "Early close possible."]]] }

ParserResponses ==
    { Unparseable, NonObject, Obj(<<>>),
      Obj([resolution_criteria |-> "Resolves Yes if BTC closes above 100K.",
           expiration_date |-> "unknown",
           market_odds |-> << [outcome |-> "Yes", implied_probability |-> 50000],
                              [outcome |-> "No", implied_probability |-> 50000] >>]),
      Obj([resolution_criteria |-> "Resolves Yes if BTC closes above 100K.",
           market_odds |-> << [implied_probability |-> 50000] >>]) }

ResearcherResponses ==
    { Unparseable, NonObject, Obj(<<>>),
      Obj([research_summary |-> "Momentum is positive.",
           sources |-> << "exchange data" >>]),
      Obj([research_summary |-> "Momentum is positive."]) }

EstimatorResponses ==
    { Unparseable, NonObject,
      Obj([estimated_probabilities |->
               << [outcome |-> "Yes", estimated_probability |-> 70000],
                  [outcome |-> "No", estimated_probability |-> 30000] >>,
           confidence_level |-> "medium"]),
      Obj([estimated_probabilities |->
               << [outcome |-> "Yes", estimated_probability |-> 70000],
                  [outcome |-> "No", estimated_probability |-> 24000] >>,
           confidence_level |-> "medium"]),
      Obj([estimated_probabilities |->
               << [outcome |-> "Yes", estimated_probability |-> 70000],
                  [outcome |-> "No", estimated_probability |-> 30000] >>]),
      Obj([estimated_probabilities |-> << [outcome |-> "Yes"] >>,
           confidence_level |-> "low"]),
      Obj([estimated_probabilities |-> << [outcome |-> "Yes"] >>]) }

AnalystResponses ==
    { Unparseable, NonObject, Obj(<<>>),
      Obj([pricing_comparison |->
               << [outcome |-> "Yes", market_probability |-> 62000,
                   estimated_probability |-> 70000, difference |-> 8000,
                   assessment |-> "underpriced"] >>,
           edge_analysis |-> "Yes looks underpriced."]),
      Obj([pricing_comparison |->
               << [outcome |-> "Yes", market_probability |-> 62000,
                   estimated_probability |-> 70000, difference |-> 8000,
                   assessment |-> "underpriced"] >>]) }

Recommendation(p) == [persona |-> p, suggested_position |-> "small Yes"]

RecommenderResponses ==
    { Unparseable, NonObject, Obj(<<>>),
      Obj([persona_recommendations |->
               [i \in DOMAIN DEFAULT_PERSONAS |-> Recommendation(DEFAULT_PERSONAS[i])]]),
      Obj([persona_recommendations |-> << Recommendation("risk_averse") >>]),
      Obj([persona_recommendations |-> << [suggested_position |-> "small Yes"] >>]) }

ScenarioResponses ==
    { Unparseable, NonObject, Obj(<<>>),
      Obj([scenarios |-> << [type |-> "best_case"], [type |-> "worst_case"],
                            [type |-> "most_likely"] >>]),
      Obj([scenarios |-> << [type |-> "best_case"], [type |-> "base_case"] >>]),
      Obj([scenarios |-> << [description |-> "rally"] >>]) }

SuggesterResponses ==
    { Unparseable, Markdown, NonObject, Obj(<<>>),
      Obj([final_output |-> "# Research report"]) }

\* ----------------------------------------------------------- orchestrator

\* self.steps: the step names in list order.
Steps ==
    << "market_ingestor", "market_parser", "independent_researcher",
       "probability_estimator", "mispricing_analyst", "persona_recommender",
       "scenario_analyst", "final_suggester" >>

\* A loop that steps over an element of self.steps.
NextIdx_skip(i) == i + 2

\* A loop that runs a stage again.
NextIdx_again(i) == i

\* The for loop's move to the next element of self.steps.
NextIdx(i) == i + 1

\* A handler written as except ValidationError.
Catches_validation_only(cls) == cls = "ValidationError"

\* except Exception: the classes the handler of run() catches.
Catches(cls) == cls /= NoExc

\* A break test that leaves out market_parser.
CriticalSteps_first_only == { "market_ingestor" }

\* A break test that also names mispricing_analyst.
CriticalSteps_with_analyst == { "market_ingestor", "market_parser", "mispricing_analyst" }

\* The steps after whose fault the loop breaks.
CriticalSteps == { "market_ingestor", "market_parser" }

\* A run() without the early return.
StopsAfter_never(s, step_name) == FALSE

\* An early return taken whenever the error log is not empty.
StopsAfter_on_errors(s, step_name) ==
    (TruthyStr(s.input_validation_error) /\ step_name = "market_ingestor")
        \/ s.errors /= <<>>

\* An early return taken when the error log holds a message that is not
\* marked as a warning.
StopsAfter_on_critical(s, step_name) ==
    (TruthyStr(s.input_validation_error) /\ step_name = "market_ingestor")
        \/ \E i \in DOMAIN s.errors :
               s.errors[i] \notin { "Warning: " \o m : m \in {
                   "Market title not extracted. Cannot proceed without identified market.",
                   "Resolution criteria not extracted. Cannot research without knowing what resolves the market.",
                   "Market odds not extracted. Cannot proceed without current pricing." } }

\* The test that makes run() return right after a step.
StopsAfter(s, step_name) ==
    TruthyStr(s.input_validation_error) /\ step_name = "market_ingestor"

\* f"Step {step_name} failed: {str(e)}"
StepFailed(step_name, m) == "Step " \o step_name \o " failed: " \o m

\* No function is called on its own in a run of the workflow.
NoArg == [fn |-> "none"]

NoResult == [fn |-> "none"]

Init ==
    /\ pc = "idle"
    /\ idx = 1
    /\ state = KalshiResearchState("")
    /\ personas \in PersonaChoices
    /\ runs = 0
    /\ invoked = <<>>
    /\ modelCalls = <<>>
    /\ gatewayCalls = 0
    /\ trace = <<>>
    /\ escaped = NoExc
    /\ arg = NoArg
    /\ ret = NoResult

\* A run() that works on a state object kept by the workflow from call to
\* call, storing only the new input in it.
Start_keeps_state ==
    /\ pc \in {"idle", "returned", "propagated"}
    /\ runs < MaxRuns
    /\ \E market_input \in UserInputs :
           state' = [state EXCEPT !.user_market_input = market_input]
    /\ pc' = "loop"
    /\ idx' = 1
    /\ runs' = runs + 1
    /\ invoked' = <<>>
    /\ modelCalls' = <<>>
    /\ gatewayCalls' = 0
    /\ trace' = <<>>
    /\ escaped' = NoExc
    /\ UNCHANGED <<personas, arg, ret>>

\* run(market_input), up to the first iteration of the loop.
Start ==
    /\ pc \in {"idle", "returned", "propagated"}
    /\ runs < MaxRuns
    /\ \E market_input \in UserInputs : state' = KalshiResearchState(market_input)
    /\ pc' = "loop"
    /\ idx' = 1
    /\ runs' = runs + 1
    /\ invoked' = <<>>
    /\ modelCalls' = <<>>
    /\ gatewayCalls' = 0
    /\ trace' = <<>>
    /\ escaped' = NoExc
    /\ UNCHANGED <<personas, arg, ret>>

\* The trace's entry for a call in which no response was parsed.
NoResp == [kind |-> "none"]

\* The trace's entry for a call that sent nothing to the model.
NoPayload == [kind |-> "none"]

\* One iteration of the loop of run(): the call of the node function, whose
\* outcome is res, and what run() does with it.
Iteration(step_name, env, res) ==
    /\ pc = "loop"
    /\ idx <= Len(Steps)
    /\ Steps[idx] = step_name
    /\ invoked' = Append(invoked, step_name)
    /\ modelCalls' = IF res.mcalls = 1 THEN Append(modelCalls, step_name) ELSE modelCalls
    /\ gatewayCalls' = gatewayCalls + res.gcalls
    /\ trace' = Append(trace, [step |-> step_name, path |-> res.path, exc |-> res.exc,
                                resp |-> IF res.path \in {"parsed", "parse_error", "markdown"}
                                         THEN env.resp ELSE NoResp,
                                http |-> IF res.gcalls = 1 THEN env.http ELSE NoHttp,
                                payload |-> IF res.mcalls = 1
                                            THEN user_message(step_name, state, personas)
                                            ELSE NoPayload])
    /\ IF res.exc = NoExc
       THEN /\ state' = res.st
            /\ escaped' = escaped
            /\ IF StopsAfter(res.st, step_name)
               THEN pc' = "returned" /\ idx' = idx
               ELSE /\ idx' = NextIdx(idx)
                    /\ pc' = IF NextIdx(idx) > Len(Steps) THEN "epilogue" ELSE "loop"
       ELSE IF Catches(res.exc)
       THEN /\ state' = AppendError(res.st, StepFailed(step_name, res.msg))
            /\ escaped' = escaped
            /\ IF step_name \in CriticalSteps
               THEN pc' = "epilogue" /\ idx' = idx
               ELSE /\ idx' = NextIdx(idx)
                    /\ pc' = IF NextIdx(idx) > Len(Steps) THEN "epilogue" ELSE "loop"
       ELSE /\ state' = res.st
            /\ escaped' = res.exc
            /\ pc' = "propagated"
            /\ idx' = idx
    /\ UNCHANGED <<personas, runs, arg, ret>>

MarketIngestor ==
    \E env \in ModelEnvs(IngestorResponses, NoHttp) :
        Iteration("market_ingestor", env, market_ingestor_node(state, env))

MarketParser ==
    \E http \in HttpReplies : \E env \in ModelEnvs(ParserResponses, http) :
        Iteration("market_parser", env, market_parser_node(state, env))

IndependentResearcher ==
    \E env \in ModelEnvs(ResearcherResponses, NoHttp) :
        Iteration("independent_researcher", env, independent_researcher_node(state, env))

ProbabilityEstimator ==
    \E env \in ModelEnvs(EstimatorResponses, NoHttp) :
        Iteration("probability_estimator", env, probability_estimator_node(state, env))

MispricingAnalyst ==
    \E env \in ModelEnvs(AnalystResponses, NoHttp) :
        Iteration("mispricing_analyst", env, mispricing_analyst_node(state, env))

PersonaRecommender ==
    \E env \in ModelEnvs(RecommenderResponses, NoHttp) :
        Iteration("persona_recommender", env, persona_recommender_node(state, env, personas))

ScenarioAnalyst ==
    \E env \in ModelEnvs(ScenarioResponses, NoHttp) :
        Iteration("scenario_analyst", env, scenario_analyst_node(state, env))

FinalSuggester ==
    \E env \in ModelEnvs(SuggesterResponses, NoHttp) :
        Iteration("final_suggester", env, final_suggester_node(state, env, personas))

\* The lines after the loop: run() returns the state.
Finish ==
    /\ pc = "epilogue"
    /\ pc' = "returned"
    /\ UNCHANGED <<idx, state, personas, runs, invoked, modelCalls, gatewayCalls,
                   trace, escaped, arg, ret>>

Next ==
    \/ Start
    \/ MarketIngestor
    \/ MarketParser
    \/ IndependentResearcher
    \/ ProbabilityEstimator
    \/ MispricingAnalyst
    \/ PersonaRecommender
    \/ ScenarioAnalyst
    \/ FinalSuggester
    \/ Finish

Spec == Init /\ [][Next]_vars

\* ------------------------------------------- stage 2 over a grid of prices
\* The runs in which the gateway answers with a record whose five prices are
\* drawn from a grid (0 stands for a price that is absent), and in which the
\* ties of the midpoints fall to either side.

YesBids == {0, 60000, 60010}

YesAsks == {0, 5, 64000}

NoBids == {0, 36000, 36010}

NoAsks == {0, 40000}

LastPrices == {0, 55000, 100000}

PricedReplies ==
    { [ kind |-> "ok",
        body |-> [market |->
            [ title |-> "BTC above 100K on Dec 31?",
              rules_primary |-> "Resolves Yes if BTC closes above 100K.",
              expected_expiration_time |-> "2024-12-31T23:59:00Z",
              yes_bid_dollars |-> yb, yes_ask_dollars |-> ya,
              no_bid_dollars |-> nb, no_ask_dollars |-> na,
              last_price_dollars |-> lp ]],
        ties |-> [yes |-> ty, no |-> tn] ] :
        yb \in YesBids, ya \in YesAsks, nb \in NoBids, na \in NoAsks,
        lp \in LastPrices, ty \in {"up", "down"}, tn \in {"up", "down"} }

MarketParserPriced ==
    \E http \in PricedReplies : \E env \in ModelEnvs(ParserResponses, http) :
        Iteration("market_parser", env, market_parser_node(state, env))

GatewayNext ==
    \/ Start
    \/ MarketIngestor
    \/ MarketParserPriced
    \/ Finish

GatewaySpec == Init /\ [][GatewayNext]_vars

\* ------------------------------------------- the validators on their own
\* Calls of validators 5, 7, 8 and of the composite check outside run(), on
\* states whose fields are drawn from bounded sets.

\* The sequences over S of length at most n.
SeqsUpTo(S, n) == UNION { [1 .. k -> S] : k \in 0 .. n }

\* A state on which validators 2 to 8 pass when risk_averse is required.
ReadyState ==
    [ KalshiResearchState("KXBTC-1") EXCEPT
        !.market_title = "BTC above 100K on Dec 31?",
        !.resolution_criteria = "Resolves Yes if BTC closes above 100K.",
        !.market_odds = << [outcome |-> "Yes", implied_probability |-> 62000],
                           [outcome |-> "No", implied_probability |-> 38000] >>,
        !.research_summary = "ETF inflows are rising.",
        !.sources = << "https://example.com/etf" >>,
        !.estimated_probabilities =
            << [outcome |-> "Yes", estimated_probability |-> 70000],
               [outcome |-> "No", estimated_probability |-> 30000] >>,
        !.confidence_level = "medium",
        !.pricing_comparison = << [outcome |-> "Yes", difference |-> 8000] >>,
        !.edge_analysis = "The market underprices Yes.",
        !.persona_recommendations = << Recommendation("risk_averse") >>,
        !.scenarios = << [type |-> "best_case"], [type |-> "worst_case"],
                         [type |-> "most_likely"] >> ]

MaxEstimates == 2

EstimateValues == {0, 44000, 45000, 46000, 50000, 55000, 56000, 100000}

\* An entry of estimated_probabilities: with its number, or without the key.
EstimateEntries ==
    { [outcome |-> "Yes", estimated_probability |-> v] : v \in EstimateValues }
        \cup { [outcome |-> "Yes"] }

ConfidenceLevels == { None, "", "medium" }

ProbabilityArgs ==
    { [ fn |-> "validate_probabilities_estimated",
        state |-> [ReadyState EXCEPT !.estimated_probabilities = e,
                                     !.confidence_level = c],
        required |-> << "risk_averse" >> ] :
        e \in SeqsUpTo(EstimateEntries, MaxEstimates), c \in ConfidenceLevels }

MaxRequired == 2

MaxRecommendations == 2

\* An entry of persona_recommendations: for a persona, or without the key.
RecommendationEntries ==
    { Recommendation(p) : p \in {"risk_averse", "risk_seeking", "news_driven"} }
        \cup { [suggested_position |-> "small Yes"] }

PersonaArgs ==
    { [ fn |-> "validate_personas_covered",
        state |-> [ReadyState EXCEPT !.persona_recommendations = recs],
        required |-> req ] :
        recs \in SeqsUpTo(RecommendationEntries, MaxRecommendations),
        req \in SeqsUpTo({"risk_averse", "risk_seeking"}, MaxRequired) }

MaxScenarios == 4

\* An entry of scenarios: of one of the three types, of another type, or
\* without the key.
ScenarioEntries ==
    { [type |-> t] : t \in {"best_case", "worst_case", "most_likely", "base_case"} }
        \cup { [description |-> "rally"] }

ScenarioArgs ==
    { [ fn |-> "validate_scenarios_complete",
        state |-> [ReadyState EXCEPT !.scenarios = l],
        required |-> << "risk_averse" >> ] :
        l \in SeqsUpTo(ScenarioEntries, MaxScenarios) }

\* For each of validators 2 to 8, values of its fields that pass and values
\* that fail.
IngestedChoices ==
    { [market_title |-> ReadyState.market_title, input_validation_error |-> None],
      [market_title |-> None, input_validation_error |-> None],
      [market_title |-> ReadyState.market_title,
       input_validation_error |-> "Could not parse response"] }

ParsedChoices ==
    { [resolution_criteria |-> ReadyState.resolution_criteria,
       market_odds |-> ReadyState.market_odds],
      [resolution_criteria |-> None, market_odds |-> ReadyState.market_odds],
      [resolution_criteria |-> ReadyState.resolution_criteria, market_odds |-> <<>>] }

ResearchChoices ==
    { [research_summary |-> ReadyState.research_summary, sources |-> ReadyState.sources],
      [research_summary |-> None, sources |-> ReadyState.sources],
      [research_summary |-> ReadyState.research_summary, sources |-> <<>>] }

EstimateChoices ==
    { [estimated_probabilities |-> ReadyState.estimated_probabilities,
       confidence_level |-> "medium"],
      [estimated_probabilities |-> << [outcome |-> "Yes", estimated_probability |-> 44000],
                                      [outcome |-> "No", estimated_probability |-> 50000] >>,
       confidence_level |-> "medium"],
      [estimated_probabilities |-> ReadyState.estimated_probabilities,
       confidence_level |-> None] }

MispricingChoices ==
    { [pricing_comparison |-> ReadyState.pricing_comparison,
       edge_analysis |-> ReadyState.edge_analysis],
      [pricing_comparison |-> <<>>, edge_analysis |-> ReadyState.edge_analysis],
      [pricing_comparison |-> ReadyState.pricing_comparison, edge_analysis |-> None] }

CoverageChoices ==
    { << Recommendation("risk_averse") >>, <<>>, << Recommendation("news_driven") >> }

ScenarioChoices ==
    { ReadyState.scenarios, <<>>,
      << [type |-> "best_case"], [type |-> "base_case"] >> }

ReadyArgs ==
    { [ fn |-> "validate_ready_for_output",
        state |-> [ReadyState EXCEPT
                     !.market_title = a.market_title,
                     !.input_validation_error = a.input_validation_error,
                     !.resolution_criteria = b.resolution_criteria,
                     !.market_odds = b.market_odds,
                     !.research_summary = c.research_summary,
                     !.sources = c.sources,
                     !.estimated_probabilities = d.estimated_probabilities,
                     !.confidence_level = d.confidence_level,
                     !.pricing_comparison = e.pricing_comparison,
                     !.edge_analysis = e.edge_analysis,
                     !.persona_recommendations = f,
                     !.scenarios = g],
        required |-> << "risk_averse" >> ] :
        a \in IngestedChoices, b \in ParsedChoices, c \in ResearchChoices,
        d \in EstimateChoices, e \in MispricingChoices, f \in CoverageChoices,
        g \in ScenarioChoices }

ValidatorInit ==
    /\ pc = "idle"
    /\ idx = 1
    /\ state = KalshiResearchState("")
    /\ personas = DEFAULT_PERSONAS
    /\ runs = 0
    /\ invoked = <<>>
    /\ modelCalls = <<>>
    /\ gatewayCalls = 0
    /\ trace = <<>>
    /\ escaped = NoExc
    /\ arg \in ProbabilityArgs \cup PersonaArgs \cup ScenarioArgs \cup ReadyArgs
    /\ ret = NoResult

\* The call fn(arg) returns or raises: out is the validator's outcome.
Call(fn, out) ==
    /\ arg.fn = fn
    /\ ret = NoResult
    /\ ret' = [fn |-> fn, out |-> out]
    /\ UNCHANGED <<pc, idx, state, personas, runs, invoked, modelCalls, gatewayCalls,
                   trace, escaped, arg>>

ValidateProbabilitiesEstimated ==
    Call("validate_probabilities_estimated", validate_probabilities_estimated(arg.state))

ValidatePersonasCovered ==
    Call("validate_personas_covered", validate_personas_covered(arg.state, arg.required))

ValidateScenariosComplete ==
    Call("validate_scenarios_complete", validate_scenarios_complete(arg.state))

ValidateReadyForOutput ==
    Call("validate_ready_for_output", validate_ready_for_output(arg.state, arg.required))

ValidatorNext ==
    \/ ValidateProbabilitiesEstimated
    \/ ValidatePersonasCovered
    \/ ValidateScenariosComplete
    \/ ValidateReadyForOutput

ValidatorSpec == ValidatorInit /\ [][ValidatorNext]_vars

\* ---------------------------------------- the ticker extractor on its own
\* Calls of extract_ticker_from_input outside run(), on every text of up to
\* MaxLen characters of a small alphabet and on a few longer ones, and a
\* second call on what the first returned.

MaxLen == 3

TickerAlphabet == {"A", "K", "7", "-", "a", " "}

\* The text of n characters c.
Repeat(c, n) == [i \in 1 .. n |-> c]

LongTexts ==
    { <<"K","X","B","T","C","-","2","4","D","E","C","3","1","-","1","0","0","K">>,
      <<"H","T","T","P","S","-","1">>,
      <<"T","H","E">>,
      Repeat("A", MaxTickerLen), Repeat("7", MaxTickerLen),
      Repeat("A", MaxTickerLen + 1), Repeat("7", MaxTickerLen + 1),
      <<"7">> \o Repeat("-", MaxTickerLen - 1),
      Chars("http://k.co/m/kx-2"), Chars("the kx-3 market") }

TickerArgs ==
    { [fn |-> "extract_ticker_from_input", text |-> x] :
        x \in SeqsUpTo(TickerAlphabet, MaxLen) \cup LongTexts }

TickerInit ==
    /\ pc = "idle"
    /\ idx = 1
    /\ state = KalshiResearchState("")
    /\ personas = DEFAULT_PERSONAS
    /\ runs = 0
    /\ invoked = <<>>
    /\ modelCalls = <<>>
    /\ gatewayCalls = 0
    /\ trace = <<>>
    /\ escaped = NoExc
    /\ arg \in TickerArgs
    /\ ret = NoResult

\* extract_ticker_from_input(arg.text)
ExtractTicker ==
    /\ ret = NoResult
    /\ ret' = [fn |-> "extract_ticker_from_input", calls |-> 1, first |-> NoTicker,
               out |-> extract_ticker_from_input(arg.text)]
    /\ UNCHANGED <<pc, idx, state, personas, runs, invoked, modelCalls, gatewayCalls,
                   trace, escaped, arg>>

\* extract_ticker_from_input of the ticker the first call returned.
ExtractTickerAgain ==
    /\ ret /= NoResult
    /\ ret.calls = 1
    /\ ret.out /= NoTicker
    /\ ret' = [fn |-> "extract_ticker_from_input", calls |-> 2, first |-> ret.out,
               out |-> extract_ticker_from_input(ret.out)]
    /\ UNCHANGED <<pc, idx, state, personas, runs, invoked, modelCalls, gatewayCalls,
                   trace, escaped, arg>>

TickerNext ==
    \/ ExtractTicker
    \/ ExtractTickerAgain

TickerSpec == TickerInit /\ [][TickerNext]_vars

\* ================================================================= claims

\* The order of the stages the specification gives.
StageOrder ==
    << "market_ingestor", "market_parser", "independent_researcher",
       "probability_estimator", "mispricing_analyst", "persona_recommender",
       "scenario_analyst", "final_suggester" >>

\* The run() call is over.
RunOver == pc \in {"epilogue", "returned"}

\* Stage k was invoked and an exception left its node function.
Faulted(k) == Len(trace) >= k /\ trace[k].exc /= NoExc

\* The messages the orchestrator's handler can append for a fault of stage k.
FaultMessages(k) ==
    { "Step " \o StageOrder[k] \o " failed: " \o m :
        m \in { "Skill not found: {skill_path}", "model call failed",
                "object has no attribute 'get'", "Expecting value",
                "unsupported operand type(s) for +=", "outcome",
                "estimated_probability", "persona", "type" } }

\* The fields stages 2-8 own are as the constructor left them.
LaterFieldsUnset(s) ==
    /\ s.resolution_criteria = None
    /\ s.expiration_date = None
    /\ s.market_odds = <<>>
    /\ s.research_summary = None
    /\ s.sources = <<>>
    /\ s.estimated_probabilities = <<>>
    /\ s.confidence_level = None
    /\ s.pricing_comparison = <<>>
    /\ s.edge_analysis = None
    /\ s.persona_recommendations = <<>>
    /\ s.scenarios = <<>>
    /\ s.final_output = None

\* C1: the stages invoked in a run are, in call order, an initial segment of
\* the fixed order market_ingestor .. final_suggester; every invoked stage has
\* returned or raised before the next is invoked; while the loop is still
\* going the next stage to invoke is the one right after the last invoked.
C1_StagesInOrder ==
    /\ Len(invoked) <= Len(StageOrder)
    /\ invoked = SubSeq(StageOrder, 1, Len(invoked))
    /\ Len(trace) = Len(invoked)
    /\ \A k \in DOMAIN trace : trace[k].step = invoked[k]
    /\ pc = "loop" => idx = Len(invoked) + 1 /\ idx <= Len(StageOrder)

\* C1 witness: a run that went through all eight stages, one of which raised.
C1_Witness ==
    pc = "returned" /\ invoked = StageOrder /\ Faulted(5)

\* C2: once stage 1 has returned with the input-error field set (a value the
\* orchestrator's test takes as set), the run is over with only stage 1
\* invoked and no field of stages 2-8 populated.
C2_InputErrorHalts ==
    (Len(trace) >= 1 /\ trace[1].exc = NoExc /\ TruthyStr(state.input_validation_error))
        => /\ pc = "returned"
           /\ invoked = << "market_ingestor" >>
           /\ LaterFieldsUnset(state)

\* C2 witness: the model answered needs_clarification and the run returned.
C2_Witness ==
    /\ pc = "returned"
    /\ Len(trace) = 1
    /\ trace[1].path = "parsed"
    /\ state.input_validation_error = "Which market do you mean?"

\* C3: when an exception leaves stage 1 or stage 2, the handler's message
\* naming that stage is the last entry of the error log, no later stage is
\* invoked and the run ends with the state the stage left: the current stage
\* is the failing one and no field of stages 2-8 is populated.
C3_CriticalFaultAborts ==
    \A k \in {1, 2} :
        Faulted(k) =>
            /\ Len(invoked) = k
            /\ RunOver
            /\ state.errors /= <<>>
            /\ state.errors[Len(state.errors)] \in FaultMessages(k)
            /\ state.current_step = StageOrder[k]
            /\ LaterFieldsUnset(state)

\* C3 witness: stage 2 raised and the run returned.
C3_Witness ==
    pc = "returned" /\ Len(trace) = 2 /\ Faulted(2)

\* C4: when an exception leaves a stage k in 3..8, the handler's message
\* naming stage k is in the error log, and the run ends only after all eight
\* stages were invoked.
C4_LaterFaultContinues ==
    \A k \in 3..8 :
        Faulted(k) =>
            /\ \E i \in DOMAIN state.errors : state.errors[i] \in FaultMessages(k)
            /\ RunOver => invoked = StageOrder

\* C4 witness: stage 5 raised and the run went on to return after stage 8.
C4_Witness ==
    /\ pc = "returned"
    /\ Faulted(5)
    /\ Len(trace) = 8
    /\ \E i \in DOMAIN state.errors : state.errors[i] \in FaultMessages(5)

\* C5: no exception leaves run(): whatever the collaborators of a stage do,
\* the call is in its loop, past it, or has returned the state.
C5_NoExceptionEscapes ==
    /\ pc /= "propagated"
    /\ escaped = NoExc
    /\ pc = "loop" => ENABLED Next

\* C5 witness: a run in which two stages raised and run() returned.
C5_Witness ==
    /\ pc = "returned"
    /\ Cardinality({k \in DOMAIN trace : trace[k].exc /= NoExc}) >= 2

\* Stage k was invoked and an exception left it, or it appended a message
\* and returned without output.
EndedInError(k) ==
    Len(trace) >= k /\ trace[k].path \in {"precondition", "parse_error", "fault"}

\* C6 (as amended): a run that was not aborted at stage 1 or 2 returns only
\* after all eight stages were invoked; its current stage is completed
\* exactly when no exception left stage 8, and final_suggester otherwise; the
\* error log holds at least one message per stage that ended in an error,
\* and the handler's message of every stage that raised.
C6_TerminalAfterStage8 ==
    (pc = "returned" /\ Len(invoked) >= 3) =>
        /\ invoked = StageOrder
        /\ (state.current_step = "completed") <=> ~Faulted(8)
        /\ Faulted(8) => state.current_step = "final_suggester"
        /\ Len(state.errors) >= Cardinality({k \in DOMAIN trace : EndedInError(k)})
        /\ \A k \in DOMAIN trace :
               Faulted(k) =>
                   \E i \in DOMAIN state.errors : state.errors[i] \in FaultMessages(k)

\* C6 witness: a completed run with a fault in stage 5 and four or more
\* messages in the log.
C6_Witness ==
    /\ pc = "returned"
    /\ state.current_step = "completed"
    /\ Faulted(5)
    /\ Len(state.errors) >= 4

\* C6 as stated: every run not aborted at stage 1 or 2 returns with current
\* stage = completed.
C6_Original ==
    (pc = "returned" /\ Len(invoked) >= 3) => state.current_step = "completed"

\* Stage 8's response gives a report: it parsed to an object with a
\* final_output value, or it is unparseable text that starts with "#".
ResponseCarriesReport(r) ==
    \/ r.resp.kind = "markdown"
    \/ /\ r.resp.kind = "object"
       /\ "final_output" \in DOMAIN r.resp.obj
       /\ r.resp.obj.final_output /= None

\* C7 (as amended): in a run that reached stage 8, final_output is populated
\* in the returned state exactly when stage 8's response carries a report,
\* whatever the earlier stages did; an unparseable response that is not
\* markdown leaves "Failed to generate final report" as the last message.
C7_ReportWhenResponseCarriesOne ==
    (pc = "returned" /\ Len(trace) = 8) =>
        /\ (state.final_output /= None) <=> ResponseCarriesReport(trace[8])
        /\ trace[8].resp.kind = "unparseable" =>
               /\ state.errors /= <<>>
               /\ state.errors[Len(state.errors)] = "Failed to generate final report"

\* C7 witness: earlier stages failed, stage 8 answered in markdown and the
\* returned state has the report.
C7_Witness ==
    /\ pc = "returned"
    /\ Len(trace) = 8
    /\ trace[8].resp.kind = "markdown"
    /\ EndedInError(3)
    /\ state.final_output /= None

\* C7 as stated: every run that reached stage 8 returns a populated
\* final_output.
C7_Original ==
    (pc = "returned" /\ Len(trace) = 8) => state.final_output /= None

\* The message a failed precondition of stage k leaves in the error log.
PreconditionMessages(k) ==
    CASE k = 2 -> { "Market title not extracted. Cannot proceed without identified market." }
      [] k = 3 -> { "Resolution criteria not extracted. Cannot research without knowing what resolves the market.",
                    "Market odds not extracted. Cannot proceed without current pricing." }
      [] k = 4 -> { "Research summary missing. Cannot estimate probabilities without research.",
                    "No sources provided. Research must cite verifiable sources." }
      [] k = 5 -> { "No probability estimates. Cannot analyze mispricing without estimates.",
                    "Probability estimates sum to {total:.2f}, should be ~1.0. Please revise estimates to ensure they form a valid probability distribution.",
                    "Confidence level not specified. Must indicate low/medium/high confidence." }
      [] k = 6 -> { "Pricing comparison missing. Cannot make recommendations without mispricing analysis.",
                    "Edge analysis missing. Must explain potential edges before recommendations." }
      [] k = 7 -> { "No persona recommendations - cannot proceed to scenarios" }

\* C8 (as amended): a failed precondition of a stage k in 2..7 leaves its
\* message in the error log and does not end the run: the run ends only after
\* all eight stages were invoked, also when the failing stage is stage 2.
\* Only stage 1's failed precondition, which sets the input-error field, ends
\* the run.
C8_PreconditionFailureContinues ==
    /\ \A k \in 2..7 :
           (Len(trace) >= k /\ trace[k].path = "precondition") =>
               /\ trace[k].exc = NoExc
               /\ \E i \in DOMAIN state.errors : state.errors[i] \in PreconditionMessages(k)
               /\ RunOver => invoked = StageOrder
    /\ (Len(trace) >= 1 /\ trace[1].path = "precondition") =>
           pc = "returned" /\ Len(invoked) = 1

\* C8 witness: stage 1 returned no input error and no title, stage 2's
\* validator failed, and the run went through stage 8.
C8_Witness ==
    /\ pc = "returned"
    /\ Len(trace) = 8
    /\ trace[1].path = "parsed"
    /\ trace[2].path = "precondition"
    /\ state.market_title = None

\* C8 as stated: after a failed validator of stage 2 no further stage is
\* executed.
C8_Original ==
    (Len(trace) >= 2 /\ trace[2].path = "precondition") => Len(invoked) = 2

\* The validator stage k runs on the incoming state, k in 2..6.
Gate(k, s) ==
    CASE k = 2 -> validate_market_ingested(s)
      [] k = 3 -> validate_market_parsed(s)
      [] k = 4 -> validate_research_complete(s)
      [] k = 5 -> validate_probabilities_estimated(s)
      [] k = 6 -> validate_mispricing_analyzed(s)

\* C9: when the validator of a stage k in 2..6 fails on the incoming state,
\* the step of stage k appends exactly the validator's message, changes the
\* current-stage name to the stage's, changes no other field, and makes no
\* model call and no gateway call.
C9_GateFailureFrame ==
    [][ (pc = "loop" /\ idx \in 2..6 /\ Gate(idx, state).exc = "ValidationError") =>
            /\ state' = [state EXCEPT !.current_step = StageOrder[idx],
                                      !.errors = Append(@, Gate(idx, state).msg)]
            /\ modelCalls' = modelCalls
            /\ gatewayCalls' = gatewayCalls ]_vars

\* C9 witness: the validators of stages 2, 3, 4, 5 and 6 all failed in one run.
C9_Witness ==
    /\ Len(trace) >= 6
    /\ \A k \in 2..6 : trace[k].path = "precondition"

\* The message of validate_user_input.
NoInputMessage ==
    "No market input provided. Please provide a Kalshi market URL, ID, or description."

\* The raw input is empty or only whitespace.
BlankInput(s) == Strip(Chars(s.user_market_input)) = <<>>

\* C10 (as amended): after stage 1 ran on an empty or whitespace-only input,
\* the input-error field holds the validator's message, the error log holds
\* that same message and nothing else, and no model call was made.
C10_BlankInputRecorded ==
    (Len(trace) >= 1 /\ BlankInput(state)) =>
        /\ state.input_validation_error = NoInputMessage
        /\ state.errors = << NoInputMessage >>
        /\ modelCalls = <<>>
        /\ trace[1].exc = NoExc

\* C10 witness: stage 1 ran on a whitespace-only input and the run returned.
C10_Witness ==
    /\ pc = "returned"
    /\ Len(trace) = 1
    /\ state.user_market_input = "   "
    /\ state.errors = << NoInputMessage >>

\* C10 as stated: after stage 1 ran on an empty or whitespace-only input the
\* input-error field holds the message, the error log is still empty and no
\* model call was made.
C10_Original ==
    (Len(trace) >= 1 /\ BlankInput(state)) =>
        /\ state.input_validation_error = NoInputMessage
        /\ state.errors = <<>>
        /\ modelCalls = <<>>

\* The messages the validators composed in validate_ready_for_output raise
\* in a run that reached stage 8.
ReadyMessages ==
    UNION { PreconditionMessages(k) : k \in 2..6 }
        \cup { "No persona recommendations generated.",
               "Missing recommendations for personas: {missing}",
               "No scenarios generated. Must include best/worst/most-likely scenarios.",
               "Missing scenario types: {missing}" }

\* m carries the warning prefix.
IsWarning(m) == m \in { "Warning: " \o r : r \in ReadyMessages }

\* The messages a step appended: the entries of the log after the step that
\* lie behind the log before it.
Appended(before, after) == SubSeq(after, Len(before) + 1, Len(after))

\* C11: in the step of stage 8, when validate_ready_for_output raises a
\* ValidationError the first message the step appends is "Warning: " followed
\* by the validator's message, no other appended message carries the prefix,
\* and the stage goes on as it does when the check passes: it dispatches its
\* model call unless its skill file is missing, and ends on the synthesis
\* branch the response selects. When the check passes no appended message
\* carries the prefix.
C11_ReadyCheckAdvisory ==
    [][ (pc = "loop" /\ idx = 8) =>
            LET v        == validate_ready_for_output(state, personas)
                new      == Appended(state.errors, state'.errors)
                warnings == {i \in DOMAIN new : IsWarning(new[i])}
                called   == modelCalls' = Append(modelCalls, "final_suggester")
            IN  /\ v.exc = "ValidationError" =>
                       /\ new /= <<>>
                       /\ new[1] = "Warning: " \o v.msg
                       /\ warnings = {1}
                /\ v.exc = NoExc => warnings = {}
                /\ v.exc \in {NoExc, "ValidationError"} =>
                       /\ called <=> trace'[8].exc /= "FileNotFoundError"
                       /\ ~called => modelCalls' = modelCalls
                       /\ trace'[8].path \in {"parsed", "markdown", "parse_error", "fault"}
                       /\ trace'[8].exc = NoExc => state'.current_step = "completed" ]_vars

\* C11 witness: the check failed on an incomplete state, the warning is the
\* only message stage 8 left, and the report was written from the response.
C11_Witness ==
    /\ pc = "returned"
    /\ Len(trace) = 8
    /\ trace[8].path = "parsed"
    /\ state.final_output = "# Research report"
    /\ IsWarning(state.errors[Len(state.errors)])
    /\ modelCalls[Len(modelCalls)] = "final_suggester"

\* a is an initial segment of b.
IsPrefix(a, b) == Len(a) <= Len(b) /\ SubSeq(b, 1, Len(a)) = a

\* C12: within a run, every step of a stage (the orchestrator's fault handler
\* included) and the return leave the error log as it was, extended by zero
\* or more messages at its end.
C12_ErrorLogAppendOnly ==
    [][ (pc \in {"loop", "epilogue"}) => IsPrefix(state.errors, state'.errors) ]_vars

\* C12 witness: a returned log that holds the gateway message of stage 2, the
\* handler's message for stage 3, the messages of the stages after it and the
\* warning of stage 8, in that order.
C12_Witness ==
    /\ pc = "returned"
    /\ Len(state.errors) >= 5
    /\ state.errors[1] = "Kalshi API: Market '{ticker}' not found on Kalshi"
    /\ state.errors[2] \in FaultMessages(3)
    /\ state.errors[3] \in PreconditionMessages(4)
    /\ IsWarning(state.errors[Len(state.errors)])

\* The fields that hold a text or nothing, and the fields that hold a list.
TextFields ==
    { "user_market_input", "market_title", "market_url_or_id", "input_validation_error",
      "resolution_criteria", "expiration_date", "research_summary",
      "confidence_level", "edge_analysis", "final_output", "current_step" }

ListFields ==
    { "market_odds", "sources", "estimated_probabilities", "pricing_comparison",
      "persona_recommendations", "scenarios", "errors" }

\* C13: within a run, a field that holds a non-empty value before a step of a
\* stage holds a non-empty value after it, on every path of the stage and of
\* the orchestrator's fault handler.
C13_FieldsAdditive ==
    [][ (pc \in {"loop", "epilogue"}) =>
            /\ \A f \in TextFields : TruthyStr(state[f]) => TruthyStr(state'[f])
            /\ \A f \in ListFields : TruthyList(state[f]) => TruthyList(state'[f]) ]_vars

\* C13 witness: stage 1 wrote the title, the gateway record of stage 2 came
\* with an empty title, and the title of stage 1 is still there at the end.
C13_Witness ==
    /\ pc = "returned"
    /\ Len(trace) = 8
    /\ trace[2].path = "gateway"
    /\ Get(Get(trace[2].http.body, "market", <<>>), "title", None) = ""
    /\ state.market_title = "BTC above 100K?"
    /\ state.market_odds /= <<>>

\* The input-error field is set in the sense of the orchestrator's test.
InputErrorSet == TruthyStr(state.input_validation_error)

\* C14: a run that is over with fewer than eight stages invoked ended for one
\* of two reasons: stage 1 returned with the input-error field set, or an
\* exception left stage 1 or stage 2, the last stage invoked. Whatever the
\* error log holds otherwise, the loop goes on to stage 8.
C14_LogNeverAborts ==
    (pc \in {"epilogue", "returned", "propagated"} /\ Len(invoked) < 8) =>
        \/ Len(trace) = 1 /\ trace[1].exc = NoExc /\ InputErrorSet
        \/ Len(trace) \in {1, 2} /\ Faulted(Len(trace))

\* C14 witness: no exception left any stage, stages 2-7 each left a message
\* that is not a warning, stage 8 left a warning, and all eight stages ran.
C14_Witness ==
    /\ pc = "returned"
    /\ invoked = StageOrder
    /\ \A k \in DOMAIN trace : ~Faulted(k)
    /\ Len(state.errors) >= 7
    /\ \E i \in DOMAIN state.errors : IsWarning(state.errors[i])
    /\ \E i \in DOMAIN state.errors : ~IsWarning(state.errors[i])

\* The node function of stage k.
Node(k, s, env, required) ==
    CASE k = 1 -> market_ingestor_node(s, env)
      [] k = 2 -> market_parser_node(s, env)
      [] k = 3 -> independent_researcher_node(s, env)
      [] k = 4 -> probability_estimator_node(s, env)
      [] k = 5 -> mispricing_analyst_node(s, env)
      [] k = 6 -> persona_recommender_node(s, env, required)
      [] k = 7 -> scenario_analyst_node(s, env)
      [] k = 8 -> final_suggester_node(s, env, required)

\* Collaborators under which stage k gets as far as its state lets it: the
\* skill file is there and the model answers; for stage 2, every gateway reply.
ProbeEnvs(k) ==
    { [skill |-> "ok", call |-> "ok", resp |-> Unparseable, http |-> h] :
        h \in IF k = 2 THEN HttpReplies ELSE {NoHttp} }

\* What stage k checks and sends on incoming state s: how its node function
\* ends, the messages it appends, whether it calls the gateway and the model,
\* and the payload it sends.
Behaviour(k, s, env, required) ==
    LET r == Node(k, s, env, required)
    IN  [ exc      |-> r.exc,
          msg      |-> r.msg,
          path     |-> r.path,
          mcalls   |-> r.mcalls,
          gcalls   |-> r.gcalls,
          appended |-> Appended(s.errors, r.st.errors),
          payload  |-> IF r.mcalls = 1 THEN user_message(StageOrder[k], s, required)
                       ELSE NoPayload ]

\* Prices put in place of the ones the odds entries hold.
AltPrices == {0, 12340, 99990}

PriceKeys == {"implied_probability", "current_price"}

\* The states that differ from s only in the implied_probability and
\* current_price values of the entries of market_odds.
Repriced(s) ==
    { [s EXCEPT !.market_odds =
          [i \in DOMAIN s.market_odds |->
              [key \in DOMAIN s.market_odds[i] |->
                  IF key \in PriceKeys THEN p[i] ELSE s.market_odds[i][key]]]] :
        p \in [DOMAIN s.market_odds -> AltPrices] }

\* C15: in the step of stage 3 and in the step of stage 4, for every state
\* that differs from the incoming one only in the price values of the odds
\* entries, the stage checks and sends the same, and the payload the step
\* sent to the model is the payload built from that other state.
C15_PayloadIgnoresPrices ==
    [][ (pc = "loop" /\ idx \in {3, 4}) =>
            \A q \in Repriced(state) :
                /\ \A env \in ProbeEnvs(idx) :
                       Behaviour(idx, q, env, personas) = Behaviour(idx, state, env, personas)
                /\ trace'[idx].payload /= NoPayload =>
                       trace'[idx].payload = user_message(StageOrder[idx], q, personas) ]_vars

\* C15 witness: the odds came from the gateway with prices, and stages 3 and
\* 4 both sent a payload; the one of stage 4 names the outcomes Yes and No.
C15_Witness ==
    /\ Len(trace) >= 4
    /\ trace[2].path = "gateway"
    /\ state.market_odds[1].implied_probability = 62000
    /\ trace[3].payload /= NoPayload
    /\ trace[4].payload /= NoPayload
    /\ trace[4].payload.outcomes = << "Yes", "No" >>

\* The fields stage k writes (the Output line of its node function).
Owned(k) ==
    CASE k = 1 -> {"market_title", "market_url_or_id", "input_validation_error"}
      [] k = 2 -> {"resolution_criteria", "expiration_date", "market_odds"}
      [] k = 3 -> {"research_summary", "sources"}
      [] k = 4 -> {"estimated_probabilities", "confidence_level"}
      [] k = 5 -> {"pricing_comparison", "edge_analysis"}
      [] k = 6 -> {"persona_recommendations"}
      [] k = 7 -> {"scenarios"}
      [] k = 8 -> {"final_output"}

\* State s with the fields in F changed to other values.
Perturb(s, F) ==
    [f \in DOMAIN s |->
        IF f \notin F THEN s[f]
        ELSE IF f \in ListFields
        THEN IF f = "sources" THEN << "another source" >>
             ELSE << [outcome |-> "Maybe", implied_probability |-> 1,
                      estimated_probability |-> 1, persona |-> "other",
                      type |-> "other"] >>
        ELSE "another value"]

\* The incoming state of stage k with the fields of one stage j >= k changed,
\* and with the fields of all stages j >= k changed.
Perturbations(k, s) ==
    { Perturb(s, Owned(j)) : j \in k..8 }
        \cup { Perturb(s, UNION { Owned(j) : j \in k..8 }) }

\* C16: in the step of every stage k, for every state that differs from the
\* incoming one only in fields written by stage k or a later stage, stage k
\* checks and sends the same, and the payload the step sent to the model is
\* the payload built from that other state.
C16_ForwardDataFlow ==
    [][ (pc = "loop") =>
            \A q \in Perturbations(idx, state) :
                /\ \A env \in ProbeEnvs(idx) :
                       Behaviour(idx, q, env, personas) = Behaviour(idx, state, env, personas)
                /\ trace'[idx].payload /= NoPayload =>
                       trace'[idx].payload = user_message(StageOrder[idx], q, personas) ]_vars

\* C16 witness: a run in which every one of the eight stages sent a payload.
C16_Witness ==
    /\ pc = "returned"
    /\ Len(trace) = 8
    /\ \A k \in 1..8 : trace[k].payload /= NoPayload

\* The market object of a gateway reply that came with a decoded body.
ReplyMarket(h) == IF h.kind = "ok" THEN Get(h.body, "market", <<>>) ELSE <<>>

\* The gateway fetch returned a record.
FetchSucceeded(h) == h.kind = "ok" /\ ReplyMarket(h) /= <<>>

\* The gateway fetch was made and did not return a record: not found, HTTP
\* error, transport error, malformed body, empty body.
FetchFailed(h) ==
    h.kind \in {"http_404", "http_error", "transport_error", "bad_body"}
        \/ (h.kind = "ok" /\ ReplyMarket(h) = <<>>)

\* The failures fetch_market reports as a gateway error.
FetchReported(h) == FetchFailed(h) /\ h.kind /= "bad_body"

\* Stage 2 called the model.
ParserCalledModel == \E i \in DOMAIN modelCalls : modelCalls[i] = "market_parser"

\* Stage 2 ran past its validator.
ParserPastGate == Len(trace) >= 2 /\ trace[2].path /= "precondition"

\* A ticker can be read from the raw input or from the reference of stage 1.
TickerAvailable(s) ==
    \/ extract_ticker_from_input(Chars(s.user_market_input)) /= NoTicker
    \/ /\ TruthyStr(s.market_url_or_id)
       /\ extract_ticker_from_input(Chars(s.market_url_or_id)) /= NoTicker

\* The resolution criteria stage 2 writes from the rules of a gateway record.
CriteriaOf(market) ==
    IF TruthyStr(Get(market, "rules_secondary", None))
    THEN Get(market, "rules_primary", "") \o "\n\nAdditional terms: " \o market.rules_secondary
    ELSE Get(market, "rules_primary", "")

\* The odds list has the two entries Yes and No, in that order.
YesNoOdds(odds) ==
    Len(odds) = 2 /\ odds[1].outcome = "Yes" /\ odds[2].outcome = "No"

\* C17 (as amended): in an execution of stage 2 past its validator, the model
\* is called only if no ticker can be read from the input or the reference
\* (no gateway fetch is made then) or the gateway fetch was made and ended in
\* a gateway error. When the fetch returns a record, stage 2 makes no model
\* call; it writes resolution criteria, expiration and the odds list Yes, No
\* from the record, unless the rules of the record cannot be joined (primary
\* rules null beside secondary rules), in which case stage 2 raises with
\* none of the three written.
C17_FallbackOnlyWithoutRecord ==
    ParserPastGate =>
        /\ ParserCalledModel =>
               \/ ~TickerAvailable(state) /\ gatewayCalls = 0
               \/ gatewayCalls = 1 /\ FetchReported(trace[2].http)
        /\ TickerAvailable(state) <=> gatewayCalls = 1
        /\ (gatewayCalls = 1 /\ FetchSucceeded(trace[2].http)) =>
               /\ ~ParserCalledModel
               /\ trace[2].exc = NoExc =>
                      /\ state.resolution_criteria = CriteriaOf(ReplyMarket(trace[2].http))
                      /\ state.expiration_date /= None
                      /\ YesNoOdds(state.market_odds)
               /\ trace[2].exc /= NoExc =>
                      /\ trace[2].exc = "TypeError"
                      /\ Get(ReplyMarket(trace[2].http), "rules_primary", "") = None
                      /\ state.resolution_criteria = None
                      /\ state.expiration_date = None
                      /\ state.market_odds = <<>>

\* C17 witness: the gateway record carried secondary rules; stage 2 wrote
\* the joined criteria and the odds and called no model.
C17_Witness ==
    /\ ParserPastGate
    /\ gatewayCalls = 1
    /\ FetchSucceeded(trace[2].http)
    /\ ~ParserCalledModel
    /\ state.resolution_criteria =
           "Resolves Yes if BTC closes above 100K.\n\nAdditional terms: Early close possible."
    /\ YesNoOdds(state.market_odds)

\* C17 as stated: in an execution of stage 2 past its validator the model is
\* called only if a gateway fetch was made and failed; when the fetch
\* succeeds (a record came back and stage 2 read it without raising) no model
\* call is made and criteria, expiration and the odds list Yes, No are
\* written.
C17_Original ==
    ParserPastGate =>
        /\ ParserCalledModel => gatewayCalls = 1 /\ FetchFailed(trace[2].http)
        /\ (gatewayCalls = 1 /\ FetchSucceeded(trace[2].http) /\ trace[2].exc = NoExc) =>
               /\ ~ParserCalledModel
               /\ state.resolution_criteria /= None
               /\ state.expiration_date /= None
               /\ YesNoOdds(state.market_odds)

\* The messages stage 2 appends for a gateway error.
GatewayMessages ==
    { "Kalshi API: " \o m :
        m \in { "Market '{ticker}' not found on Kalshi", "Kalshi API error: {e}",
                "Failed to connect to Kalshi API: {e}",
                "No market data returned for ticker '{ticker}'" } }

\* C18 as stated: whenever the gateway fetch of stage 2 fails, the error log
\* holds the gateway message, the exception does not leave stage 2 and the
\* run is not ended by it: stage 2 goes on to its model-based extraction.
C18_Original ==
    (Len(trace) >= 2 /\ FetchFailed(trace[2].http)) =>
        /\ \E i \in DOMAIN state.errors : state.errors[i] \in GatewayMessages
        /\ trace[2].exc /= "JSONDecodeError"
        /\ trace[2].exc = NoExc => trace[2].path \in {"parsed", "parse_error"}
        /\ RunOver => (Faulted(2) \/ invoked = StageOrder)

\* The price of a gateway record under key, 0 when it is absent.
PriceOf(market, key) == Get(market, key, 0)

\* r is x rounded to 4 decimal places, for x = twice / 2 units: r is a
\* multiple of 0.0001 and no multiple of 0.0001 is nearer to x than r.
IsRounded4(r, twice) ==
    /\ r % 10 = 0
    /\ 2 * r - twice \in -10 .. 10

\* Stage 2 took the gateway branch and returned.
GatewayBranch == Len(trace) >= 2 /\ trace[2].path = "gateway"

\* C19: when stage 2 returns from the gateway branch on a record whose
\* yes-ask and no-ask are not zero, the odds list is Yes, No, implied-yes is
\* (yes-bid + yes-ask) / 2 and implied-no is (no-bid + no-ask) / 2, each
\* rounded to 4 decimal places; bids 0.60 / 0.36 and asks 0.64 / 0.40 give
\* 0.62 and 0.38.
C19_MidpointOdds ==
    GatewayBranch =>
        LET m == ReplyMarket(trace[2].http)
        IN  (PriceOf(m, "yes_ask_dollars") /= 0 /\ PriceOf(m, "no_ask_dollars") /= 0) =>
                /\ YesNoOdds(state.market_odds)
                /\ IsRounded4(state.market_odds[1].implied_probability,
                              PriceOf(m, "yes_bid_dollars") + PriceOf(m, "yes_ask_dollars"))
                /\ IsRounded4(state.market_odds[2].implied_probability,
                              PriceOf(m, "no_bid_dollars") + PriceOf(m, "no_ask_dollars"))
                /\ ( /\ PriceOf(m, "yes_bid_dollars") = 60000
                     /\ PriceOf(m, "yes_ask_dollars") = 64000
                     /\ PriceOf(m, "no_bid_dollars") = 36000
                     /\ PriceOf(m, "no_ask_dollars") = 40000 ) =>
                       /\ state.market_odds[1].implied_probability = 62000
                       /\ state.market_odds[2].implied_probability = 38000

\* C19 witness: the record with bids 0.60 / 0.36, asks 0.64 / 0.40 and a last
\* price of 0.55 gave Yes 0.62 and No 0.38.
C19_Witness ==
    /\ GatewayBranch
    /\ PriceOf(ReplyMarket(trace[2].http), "yes_bid_dollars") = 60000
    /\ PriceOf(ReplyMarket(trace[2].http), "yes_ask_dollars") = 64000
    /\ PriceOf(ReplyMarket(trace[2].http), "no_bid_dollars") = 36000
    /\ PriceOf(ReplyMarket(trace[2].http), "no_ask_dollars") = 40000
    /\ PriceOf(ReplyMarket(trace[2].http), "last_price_dollars") = 55000
    /\ state.market_odds[1].implied_probability = 62000
    /\ state.market_odds[2].implied_probability = 38000

\* C20: when stage 2 returns from the gateway branch on a record whose
\* yes-ask and no-ask are zero, the odds list is Yes, No, implied-yes is the
\* last price and implied-no is 1 minus the last price (a price of at most 4
\* decimal places is its own rounding), whatever the bids are.
C20_LastPriceOdds ==
    GatewayBranch =>
        LET m == ReplyMarket(trace[2].http)
        IN  (PriceOf(m, "yes_ask_dollars") = 0 /\ PriceOf(m, "no_ask_dollars") = 0) =>
                /\ YesNoOdds(state.market_odds)
                /\ state.market_odds[1].implied_probability
                       = PriceOf(m, "last_price_dollars")
                /\ state.market_odds[2].implied_probability
                       = 100000 - PriceOf(m, "last_price_dollars")

\* C20 witness: a record with bids, no asks and a last price of 0.55 gave
\* Yes 0.55 and No 0.45.
C20_Witness ==
    /\ GatewayBranch
    /\ PriceOf(ReplyMarket(trace[2].http), "yes_ask_dollars") = 0
    /\ PriceOf(ReplyMarket(trace[2].http), "no_ask_dollars") = 0
    /\ PriceOf(ReplyMarket(trace[2].http), "yes_bid_dollars") = 60000
    /\ PriceOf(ReplyMarket(trace[2].http), "last_price_dollars") = 55000
    /\ state.market_odds[1].implied_probability = 55000
    /\ state.market_odds[2].implied_probability = 45000

\* The five prices of the record stage 2 received.
yes_bid == PriceOf(ReplyMarket(trace[2].http), "yes_bid_dollars")
yes_ask == PriceOf(ReplyMarket(trace[2].http), "yes_ask_dollars")
no_bid == PriceOf(ReplyMarket(trace[2].http), "no_bid_dollars")
no_ask == PriceOf(ReplyMarket(trace[2].http), "no_ask_dollars")
last_price == PriceOf(ReplyMarket(trace[2].http), "last_price_dollars")

\* The yes midpoint (yes_bid + yes_ask) / 2 rounds to 0 at 4 decimal places:
\* it lies strictly within half a step of 0.
YesMidRoundsToZero == yes_bid + yes_ask \in -9 .. 9

\* The implied-no of the no side: the rounded no midpoint, or 1 minus the
\* last price when no-ask is zero.
NoSideOdds ==
    IF no_ask /= 0
    THEN IsRounded4(state.market_odds[2].implied_probability, no_bid + no_ask)
    ELSE state.market_odds[2].implied_probability = 100000 - last_price

\* C21 as stated: when yes-ask is not zero, the yes midpoint rounds to 0 and
\* the last price is not zero, stage 2 writes implied-yes = last price and
\* implied-no = 1 - last price.
C21_Original ==
    (GatewayBranch /\ yes_ask /= 0 /\ YesMidRoundsToZero /\ last_price /= 0) =>
        /\ state.market_odds[1].implied_probability = last_price
        /\ state.market_odds[2].implied_probability = 100000 - last_price

\* C21: when yes-ask is not zero and the yes midpoint is not exactly zero,
\* the override does not fire, even when the midpoint rounds to 0 and the
\* last price is not zero: implied-yes is the rounded midpoint (0.0 when it
\* rounds to 0) and implied-no comes from the no side.
C21_OverrideNeedsExactZero ==
    (GatewayBranch /\ yes_ask /= 0 /\ yes_bid + yes_ask /= 0) =>
        /\ YesNoOdds(state.market_odds)
        /\ IsRounded4(state.market_odds[1].implied_probability, yes_bid + yes_ask)
        /\ YesMidRoundsToZero => state.market_odds[1].implied_probability = 0
        /\ NoSideOdds

\* C21 witness: yes-bid 0, yes-ask 0.00005 (midpoint 0.000025), no-bid 0.36,
\* no-ask 0.40 and a last price of 0.55 gave Yes 0.0 and No 0.38.
C21_Witness ==
    /\ GatewayBranch
    /\ yes_bid = 0 /\ yes_ask = 5
    /\ no_bid = 36000 /\ no_ask = 40000
    /\ last_price = 55000
    /\ state.market_odds[1].implied_probability = 0
    /\ state.market_odds[2].implied_probability = 38000

\* Every price of the record stage 2 received is zero.
AllPricesZero ==
    yes_bid = 0 /\ yes_ask = 0 /\ no_bid = 0 /\ no_ask = 0 /\ last_price = 0

\* C22 as stated: when every price of the record is zero, stage 2 writes
\* implied probability 0.0 for Yes and for No.
C22_Original ==
    (GatewayBranch /\ AllPricesZero) =>
        /\ state.market_odds[1].implied_probability = 0
        /\ state.market_odds[2].implied_probability = 0

\* C22: when every price of the record is zero, stage 2 writes implied
\* probability 0.0 for Yes and 1.0 (1 minus the last price of 0) for No.
C22_AllZeroOdds ==
    (GatewayBranch /\ AllPricesZero) =>
        /\ YesNoOdds(state.market_odds)
        /\ state.market_odds[1].implied_probability = 0
        /\ state.market_odds[2].implied_probability = 100000

\* C22 witness: the all-zero record gave Yes 0.0 and No 1.0.
C22_Witness ==
    /\ GatewayBranch
    /\ AllPricesZero
    /\ state.market_odds[1].implied_probability = 0
    /\ state.market_odds[2].implied_probability = 100000

\* The call of fn on arg has returned or raised.
Called(fn) == ret /= NoResult /\ ret.fn = fn

\* Every entry of the list l carries the key k.
AllCarry(l, k) == \A i \in DOMAIN l : k \in DOMAIN l[i]

\* The sum of the estimated probabilities of l, each entry carrying one.
RECURSIVE Total(_)
Total(l) == IF l = <<>> THEN 0 ELSE l[1].estimated_probability + Total(Tail(l))

\* The sum of the estimates is within [0.95, 1.05].
SumAccepted(l) == Total(l) >= 95000 /\ Total(l) <= 105000

\* C23: validate_probabilities_estimated passes exactly when there is at
\* least one estimate, the estimated probabilities sum to a value within
\* [0.95, 1.05] and the confidence label is present; sums of 0.94 and 1.06
\* fail, sums of 0.96 and 1.00 pass; the failure reported is that of the
\* first unmet condition in the order emptiness, sum, confidence (an entry
\* without a probability makes the sum itself fail).
C23_ProbabilitiesValidator ==
    Called("validate_probabilities_estimated") =>
        LET e == arg.state.estimated_probabilities
            c == arg.state.confidence_level
            summed == AllCarry(e, "estimated_probability")
        IN  /\ ret.out.exc = NoExc <=>
                    (e /= <<>> /\ summed /\ SumAccepted(e) /\ c \notin {None, ""})
            /\ e = <<>> =>
                    ret.out.msg = "No probability estimates. Cannot analyze mispricing without estimates."
            /\ (e /= <<>> /\ ~summed) => ret.out.exc = "KeyError"
            /\ (e /= <<>> /\ summed /\ ~SumAccepted(e)) =>
                    /\ ret.out.exc = "ValidationError"
                    /\ ret.out.msg = "Probability estimates sum to {total:.2f}, should be ~1.0. Please revise estimates to ensure they form a valid probability distribution."
            /\ (e /= <<>> /\ summed /\ SumAccepted(e) /\ c \in {None, ""}) =>
                    ret.out.msg = "Confidence level not specified. Must indicate low/medium/high confidence."
            /\ (summed /\ Total(e) \in {94000, 106000}) => ret.out.exc /= NoExc
            /\ (summed /\ Total(e) \in {96000, 100000} /\ c = "medium") =>
                    ret.out.exc = NoExc

\* C23 witness: estimates of 0.44 and 0.50 (sum 0.94) without a confidence
\* label were rejected for their sum.
C23_Witness ==
    /\ Called("validate_probabilities_estimated")
    /\ Len(arg.state.estimated_probabilities) = 2
    /\ AllCarry(arg.state.estimated_probabilities, "estimated_probability")
    /\ Total(arg.state.estimated_probabilities) = 94000
    /\ arg.state.confidence_level = None
    /\ ret.out.exc = "ValidationError"
    /\ ret.out.msg = "Probability estimates sum to {total:.2f}, should be ~1.0. Please revise estimates to ensure they form a valid probability distribution."

\* The types of the scenarios of l, each entry carrying one.
TypesOf(l) == { l[i].type : i \in DOMAIN l }

CanonicalTypes == {"best_case", "worst_case", "most_likely"}

\* C24 as stated: validate_scenarios_complete passes only when the set of
\* scenario types is exactly the three canonical labels.
C24_Original ==
    (Called("validate_scenarios_complete") /\ ret.out.exc = NoExc) =>
        /\ AllCarry(arg.state.scenarios, "type")
        /\ TypesOf(arg.state.scenarios) = CanonicalTypes

\* C24: validate_scenarios_complete passes exactly when scenarios are
\* present, each carries a type and the three canonical labels are all among
\* the types; it fails when scenarios are absent and when any of the three
\* labels is missing; a type outside the three does not make it fail.
C24_ScenariosValidator ==
    Called("validate_scenarios_complete") =>
        LET l == arg.state.scenarios
            typed == AllCarry(l, "type")
        IN  /\ ret.out.exc = NoExc <=>
                    (l /= <<>> /\ typed /\ CanonicalTypes \subseteq TypesOf(l))
            /\ l = <<>> =>
                    ret.out.msg = "No scenarios generated. Must include best/worst/most-likely scenarios."
            /\ (l /= <<>> /\ ~typed) => ret.out.exc = "KeyError"
            /\ (l /= <<>> /\ typed /\ ~(CanonicalTypes \subseteq TypesOf(l))) =>
                    /\ ret.out.exc = "ValidationError"
                    /\ ret.out.msg = "Missing scenario types: {missing}"

\* C24 witness: four scenarios, the three canonical ones and a base_case,
\* passed.
C24_Witness ==
    /\ Called("validate_scenarios_complete")
    /\ AllCarry(arg.state.scenarios, "type")
    /\ TypesOf(arg.state.scenarios) = CanonicalTypes \cup {"base_case"}
    /\ ret.out.exc = NoExc

\* Every required persona is the persona of at least one entry of recs.
EveryRequiredCovered(recs, required) ==
    \A j \in DOMAIN required :
        \E i \in DOMAIN recs : "persona" \in DOMAIN recs[i] /\ recs[i].persona = required[j]

\* C25 as stated: validate_personas_covered passes exactly when every
\* required persona is the persona of at least one recommendation entry, for
\* every required list (the empty one too) and every recommendation list
\* (read here over the lists whose entries all carry a persona).
C25_Original ==
    (Called("validate_personas_covered")
        /\ AllCarry(arg.state.persona_recommendations, "persona")) =>
        (ret.out.exc = NoExc <=>
            EveryRequiredCovered(arg.state.persona_recommendations, arg.required))

\* C25: validate_personas_covered passes exactly when the recommendation
\* list is not empty, each entry carries a persona and every required persona
\* is the persona of at least one entry, for every required list (the empty
\* one too); recommendations for personas that are not required do not make
\* it fail.
C25_PersonasValidator ==
    Called("validate_personas_covered") =>
        LET recs == arg.state.persona_recommendations
            named == AllCarry(recs, "persona")
        IN  /\ ret.out.exc = NoExc <=>
                    (recs /= <<>> /\ named /\ EveryRequiredCovered(recs, arg.required))
            /\ recs = <<>> => ret.out.msg = "No persona recommendations generated."
            /\ (recs /= <<>> /\ ~named) => ret.out.exc = "KeyError"
            /\ (recs /= <<>> /\ named /\ ~EveryRequiredCovered(recs, arg.required)) =>
                    /\ ret.out.exc = "ValidationError"
                    /\ ret.out.msg = "Missing recommendations for personas: {missing}"

\* C25 witness: with risk_averse required, recommendations for risk_averse
\* and for news_driven (not required) passed.
C25_Witness ==
    /\ Called("validate_personas_covered")
    /\ arg.required = << "risk_averse" >>
    /\ arg.state.persona_recommendations =
           << Recommendation("risk_averse"), Recommendation("news_driven") >>
    /\ ret.out.exc = NoExc

\* The outcomes of validators 2 to 8 on s, in the order ingested, parsed,
\* research, probabilities, mispricing, personas, scenarios.
SevenOutcomes(s, required) ==
    << validate_market_ingested(s), validate_market_parsed(s),
       validate_research_complete(s), validate_probabilities_estimated(s),
       validate_mispricing_analyzed(s), validate_personas_covered(s, required),
       validate_scenarios_complete(s) >>

\* C26: validate_ready_for_output fails with the outcome of the first of
\* validators 2 to 8, in that order, that fails, and passes exactly when all
\* seven pass.
C26_CompositeOrder ==
    Called("validate_ready_for_output") =>
        LET seven == SevenOutcomes(arg.state, arg.required)
            failing == { k \in 1 .. 7 : seven[k].exc /= NoExc }
        IN  /\ ret.out.exc = NoExc <=> failing = {}
            /\ \A k \in failing :
                    (\A j \in failing : k <= j) => ret.out = seven[k]

\* C26 witness: on a state whose research sources, estimates and scenarios
\* all fail their validators, the composite check failed with the message of
\* the research validator.
C26_Witness ==
    /\ Called("validate_ready_for_output")
    /\ arg.state.sources = <<>>
    /\ arg.state.confidence_level = None
    /\ arg.state.scenarios = <<>>
    /\ validate_market_ingested(arg.state).exc = NoExc
    /\ validate_market_parsed(arg.state).exc = NoExc
    /\ ret.out.msg = "No sources provided. Research must cite verifiable sources."

\* The message a stage appends when it cannot parse the model's response.
ParseFailureMessage(k) ==
    CASE k = 1 -> "Could not parse JSON from response: {response}"
      [] k = 2 -> "Failed to parse market mechanics: Could not parse JSON from response: {response}"
      [] k = 3 -> "Failed to parse research: Could not parse JSON from response: {response}"
      [] k = 4 -> "Failed to parse probability estimates: Could not parse JSON from response: {response}"
      [] k = 5 -> "Failed to parse mispricing analysis: Could not parse JSON from response: {response}"
      [] k = 6 -> "Failed to parse persona recommendations: Could not parse JSON from response: {response}"
      [] k = 7 -> "Failed to parse scenario analysis: Could not parse JSON from response: {response}"
      [] k = 8 -> "Failed to generate final report"

\* The messages of l that a stage appends after its model call: those that
\* are neither the warning of the advisory check nor the gateway's error.
Errors(l) == SelectSeq(l, LAMBDA m : ~IsWarning(m) /\ m \notin GatewayMessages)

\* The step of stage idx is one in which the stage received a response that
\* holds no JSON.
UnparsedStep ==
    /\ pc = "loop"
    /\ Len(trace') = idx
    /\ trace'[idx].resp.kind \in {"unparseable", "markdown"}

\* The run goes on after stage k as it does after a stage without failure.
GoesOn(k) ==
    IF k < 8 THEN pc' = "loop" /\ idx' = k + 1 ELSE pc' = "epilogue"

\* C27 as stated: in every stage, a response that cannot be parsed makes the
\* stage append one error, leave its output fields as they were and the run
\* go on with the next stage.
C27_Original ==
    [][ UnparsedStep =>
            /\ Len(Errors(Appended(state.errors, state'.errors))) = 1
            /\ \A f \in Owned(idx) : state'[f] = state[f]
            /\ GoesOn(idx) ]_vars

\* C27: in stages 2 to 7 a response that cannot be parsed makes the stage
\* append one error that names the stage's product, leave its output fields
\* as they were, and the run goes on with the next stage. Stage 1 appends the
\* parser's message and leaves title and reference as they were, but sets
\* the input-error field, and the run returns after it. Stage 8 takes a
\* response that begins with "#" as the report itself and appends no error;
\* any other unparseable response leaves the report unset and appends
\* "Failed to generate final report"; either way the marker becomes
\* completed and the run ends as usual.
C27_ParseFailure ==
    [][ UnparsedStep =>
            LET k   == idx
                new == Errors(Appended(state.errors, state'.errors))
            IN  /\ (k \in 2 .. 7) =>
                       /\ new = << ParseFailureMessage(k) >>
                       /\ \A f \in Owned(k) : state'[f] = state[f]
                       /\ GoesOn(k)
                /\ k = 1 =>
                       /\ new = << ParseFailureMessage(1) >>
                       /\ state'.market_title = state.market_title
                       /\ state'.market_url_or_id = state.market_url_or_id
                       /\ state'.input_validation_error
                              = "Failed to parse market: " \o ParseFailureMessage(1)
                       /\ pc' = "returned"
                /\ (k = 8 /\ trace'[8].resp.kind = "markdown") =>
                       /\ new = <<>>
                       /\ state'.final_output = "{response}"
                       /\ state'.current_step = "completed"
                       /\ GoesOn(8)
                /\ (k = 8 /\ trace'[8].resp.kind = "unparseable") =>
                       /\ new = << ParseFailureMessage(8) >>
                       /\ state'.final_output = state.final_output
                       /\ state'.current_step = "completed"
                       /\ GoesOn(8) ]_vars

\* C27 witness: stage 4 could not parse its response: its message is the
\* last of the log but for those of the later stages, its fields are unset,
\* and stages 5 to 8 were invoked after it.
C27_Witness ==
    /\ pc = "returned"
    /\ Len(trace) = 8
    /\ trace[4].resp.kind = "unparseable"
    /\ \E i \in DOMAIN state.errors : state.errors[i] = ParseFailureMessage(4)
    /\ state.estimated_probabilities = <<>>
    /\ state.confidence_level = None
    /\ invoked = StageOrder

\* No entry of the sequence l occurs twice.
NoRepeat(l) == \A i, j \in DOMAIN l : l[i] = l[j] => i = j

\* C28: in any run each stage is invoked at most once, each invocation
\* dispatches at most one model call (a stage occurs at most once among the
\* calls, and only if it was invoked), and the run makes at most 8 model
\* calls.
C28_SinglePass ==
    /\ NoRepeat(invoked)
    /\ \A i \in DOMAIN invoked : invoked[i] \in Range(StageOrder)
    /\ NoRepeat(modelCalls)
    /\ \A i \in DOMAIN modelCalls : modelCalls[i] \in Range(invoked)
    /\ Len(modelCalls) <= 8

\* C28 witness: a run in which stage 3 faulted after its call was dispatched
\* and every stage was invoked once: stage 3 occurs once among the calls.
C28_Witness ==
    /\ pc = "returned"
    /\ invoked = StageOrder
    /\ Faulted(3)
    /\ modelCalls = << "market_ingestor", "market_parser", "independent_researcher",
                       "final_suggester" >>

\* C28 witness of the bound: a run that made 8 model calls, one per stage.
C28_EightCalls == pc = "returned" /\ modelCalls = StageOrder

\* x is a text over [A-Z0-9-] of 1 to 50 characters.
ValidIdentifier(x) ==
    /\ Len(x) >= 1
    /\ Len(x) <= 50
    /\ \A i \in DOMAIN x :
           x[i] \in { "A", "B", "C", "D", "E", "F", "G", "H", "I", "J", "K", "L", "M",
                      "N", "O", "P", "Q", "R", "S", "T", "U", "V", "W", "X", "Y", "Z",
                      "0", "1", "2", "3", "4", "5", "6", "7", "8", "9", "-" }

\* C29: for every text x over [A-Z0-9-] of 1 to 50 characters,
\* extract_ticker_from_input(x) is present, and extract_ticker_from_input of
\* it is the same ticker.
C29_ExtractIdempotent ==
    (ret /= NoResult /\ ValidIdentifier(arg.text)) =>
        /\ ret.out /= NoTicker
        /\ ret.calls = 2 => ret.out = ret.first

\* C29 witness: the second call on the ticker extracted from a text of 50
\* characters over [A-Z0-9-] returned that ticker.
C29_Witness ==
    /\ ret /= NoResult
    /\ ret.calls = 2
    /\ ValidIdentifier(arg.text)
    /\ Len(arg.text) = 50
    /\ ret.first /= NoTicker
    /\ ret.out = ret.first

\* The place of a value of the marker in the order not_started, the eight
\* stages, completed.
MarkerRank(m) ==
    IF m = "not_started" THEN 0
    ELSE IF m = "completed" THEN 9
    ELSE CHOOSE k \in 1 .. 8 : StageOrder[k] = m

\* C30: a run starts with the marker at not_started; the step of stage k
\* leaves the marker at the name of stage k whatever the stage does
\* (precondition failure, fault, parse failure), or at completed, and at
\* completed exactly when k = 8 and stage 8 returned without raising; the
\* marker only moves forward in the order of the stages; the return leaves
\* it as it is.
C30_MarkerLinear ==
    [][ /\ (pc /= "loop" /\ pc' = "loop") => state'.current_step = "not_started"
        /\ (pc = "loop") =>
               /\ state'.current_step \in {StageOrder[idx], "completed"}
               /\ state'.current_step = "completed"
                      <=> (idx = 8 /\ trace'[8].exc = NoExc)
               /\ MarkerRank(state'.current_step) > MarkerRank(state.current_step)
        /\ (pc = "epilogue") => state'.current_step = state.current_step ]_vars

\* C30 witness: a run whose stage 7 failed its precondition and whose stage
\* 8 returned: the marker is at completed.
C30_Witness ==
    /\ pc = "returned"
    /\ Len(trace) = 8
    /\ trace[7].path = "precondition"
    /\ trace[8].exc = NoExc
    /\ state.current_step = "completed"

\* The meta fields: every stage records its name and may append messages.
MetaFields == {"current_step", "errors"}

\* The step of stage k leaves field f as it was.
Kept(f) == state'[f] = state[f]

\* C31 as stated: the step of stage k changes, besides the meta fields, only
\* fields of stage k's own group; every field of another stage's group, and
\* the raw input, is after the step what it was before it.
C31_Original ==
    [][ (pc = "loop") =>
            \A f \in (DOMAIN state \ MetaFields) \ Owned(idx) : Kept(f) ]_vars

\* The one write outside a stage's group: on its gateway branch stage 2
\* assigns market_title, a field of stage 1's group; every other field of
\* another stage is left as it was by every stage.
C31_FrameButTitle ==
    [][ (pc = "loop") =>
            /\ \A f \in ((DOMAIN state \ MetaFields) \ Owned(idx)) \ {"market_title"} : Kept(f)
            /\ ~Kept("market_title") =>
                   idx \in {1, 2} /\ (idx = 2 => trace'[2].path = "gateway") ]_vars

\* Stage 2 replaced the title stage 1 had written by the gateway's title.
C31_TitleReplaced ==
    /\ Len(trace) >= 2
    /\ trace[1].path = "parsed"
    /\ trace[2].path = "gateway"
    /\ trace[1].resp.obj.market_title = "BTC above 100K?"
    /\ state.market_title = "BTC above 100K on Dec 31?"

\* A text field holds a text that is not empty.
Present(v) == v /= None /\ v /= ""

\* What the claim requires of the state in which stage k dispatches its
\* model call, k in 3..6.
GateCondition(k, s) ==
    CASE k = 3 -> Present(s.resolution_criteria) /\ Len(s.market_odds) >= 1
      [] k = 4 -> Present(s.research_summary) /\ Len(s.sources) >= 1
      [] k = 5 -> /\ Len(s.estimated_probabilities) >= 1
                  /\ AllCarry(s.estimated_probabilities, "estimated_probability")
                  /\ Total(s.estimated_probabilities) >= 95000
                  /\ Total(s.estimated_probabilities) <= 105000
                  /\ Present(s.confidence_level)
      [] k = 6 -> Len(s.pricing_comparison) >= 1 /\ Present(s.edge_analysis)

\* C32: a step of stage 3, 4, 5 or 6 that dispatches the stage's model call
\* starts in a state that holds what the stage's gate requires: resolution
\* criteria and an odds entry (3), a research summary and a source (4), an
\* estimate, a sum of the estimates within [0.95, 1.05] and a confidence
\* label (5), a pricing-comparison entry and an edge analysis (6). The call is
\* the one recorded for the stage, and its payload is built from that state.
C32_GateSoundness ==
    [][ (pc = "loop" /\ idx \in 3..6 /\ modelCalls' /= modelCalls) =>
            /\ GateCondition(idx, state)
            /\ modelCalls' = Append(modelCalls, StageOrder[idx])
            /\ trace'[idx].payload = user_message(StageOrder[idx], state, personas) ]_vars

\* C32 witness: stages 3, 4, 5 and 6 each dispatched a model call in one
\* run, stage 5 on estimates of 0.70 and 0.30.
C32_Witness ==
    /\ Len(trace) >= 6
    /\ \A k \in 3..6 : trace[k].payload /= NoPayload
    /\ SubSeq(modelCalls, Len(modelCalls) - 3, Len(modelCalls))
           = SubSeq(StageOrder, 3, 6)
    /\ Total(state.estimated_probabilities) = 100000

\* A gate turned a stage away: stage 4 made no call for want of a source and
\* stage 5 made none on estimates that sum to 0.94.
C32_Blocked ==
    \/ /\ Len(trace) >= 4
       /\ trace[3].path = "parsed"
       /\ state.sources = <<>>
       /\ Present(state.research_summary)
       /\ trace[4].payload = NoPayload
    \/ /\ Len(trace) >= 5
       /\ trace[4].path = "parsed"
       /\ AllCarry(state.estimated_probabilities, "estimated_probability")
       /\ Total(state.estimated_probabilities) = 94000
       /\ trace[5].payload = NoPayload

\* A state in which only the raw input is populated.
OnlyInput(s) ==
    s = [ user_market_input       |-> s.user_market_input,
          market_title            |-> None,
          market_url_or_id        |-> None,
          input_validation_error  |-> None,
          resolution_criteria     |-> None,
          expiration_date         |-> None,
          market_odds             |-> <<>>,
          research_summary        |-> None,
          sources                 |-> <<>>,
          estimated_probabilities |-> <<>>,
          confidence_level        |-> None,
          pricing_comparison      |-> <<>>,
          edge_analysis           |-> None,
          persona_recommendations |-> <<>>,
          scenarios               |-> <<>>,
          final_output            |-> None,
          current_step            |-> "not_started",
          errors                  |-> <<>> ]

\* Field f of the state holds something.
Populated(f) == IF f \in ListFields THEN state[f] /= <<>> ELSE state[f] /= None

\* The messages stage k, or the orchestrator's handler on its behalf, can
\* append in the run that invoked it.
StageMessages(k) ==
    FaultMessages(k) \cup { ParseFailureMessage(k) }
        \cup (IF k \in 2..7 THEN PreconditionMessages(k) ELSE {})
        \cup (IF k = 1 THEN { NoInputMessage } ELSE {})
        \cup (IF k = 2 THEN GatewayMessages ELSE {})
        \cup (IF k = 8 THEN { "Warning: " \o r : r \in ReadyMessages } ELSE {})

\* C33: a call of run() starts its first stage from a state in which only
\* the raw input is populated (every other field at its default, current
\* stage not_started, error log empty), whatever an earlier call on the same
\* workflow object left; at every point of the call each populated field was
\* written by a stage this call invoked, and the error log holds only
\* messages of stages this call invoked, at most two for stages 2 and 8 and
\* one for every other stage.
C33_FreshRuns ==
    /\ (pc \in {"idle", "loop"} /\ trace = <<>>) => OnlyInput(state)
    /\ \A k \in 1..8 : \A f \in Owned(k) :
           Populated(f) =>
               \/ Len(trace) >= k /\ trace[k].exc = NoExc
               \/ f = "market_title" /\ Len(trace) >= 2 /\ trace[2].path = "gateway"
    /\ state.current_step =
           IF trace = <<>> THEN "not_started"
           ELSE IF Len(trace) = 8 /\ trace[8].exc = NoExc THEN "completed"
           ELSE StageOrder[Len(trace)]
    /\ \A i \in DOMAIN state.errors :
           \E k \in DOMAIN trace : state.errors[i] \in StageMessages(k)
    /\ Len(state.errors) <= Len(trace) + Cardinality({2, 8} \cap DOMAIN trace)

\* C33 witness: the second call of run() on a workflow object has returned,
\* after a first call that went through at least stage 1; it stopped at
\* stage 1 on a blank input and holds that one message and no other field.
C33_Witness ==
    /\ runs = 2
    /\ pc = "returned"
    /\ Len(trace) = 1
    /\ state.errors = << NoInputMessage >>
    /\ state.input_validation_error = NoInputMessage
    /\ LaterFieldsUnset(state)
    /\ state.market_title = None

\* The second call of run() is about to invoke its first stage.
C33_SecondStart == runs = 2 /\ pc = "loop" /\ trace = <<>> /\ OnlyInput(state)

\* The fields of stage k the gate of stage k + 1 requires, k in 2..6.
Required(k) ==
    CASE k = 2 -> {"resolution_criteria", "market_odds"}
      [] k = 3 -> {"research_summary", "sources"}
      [] k = 4 -> {"estimated_probabilities", "confidence_level"}
      [] k = 5 -> {"pricing_comparison", "edge_analysis"}
      [] k = 6 -> {"persona_recommendations"}

\* Stage k was invoked and finished without populating the fields the next
\* gate requires (a stage's fields are written by that stage alone, so what
\* the state holds of them is what stage k left).
LeftUnpopulated(k) ==
    /\ Len(trace) >= k
    /\ \E f \in Required(k) :
           IF f \in ListFields THEN state[f] = <<>> ELSE state[f] \in {None, ""}

\* Stage j made no model call and left its own precondition message.
TurnedAway(j) ==
    /\ trace[j].path = "precondition"
    /\ trace[j].payload = NoPayload
    /\ StageOrder[j] \notin Range(modelCalls)
    /\ \E i \in DOMAIN state.errors : state.errors[i] \in PreconditionMessages(j)

\* The error log holds an entry with the warning prefix.
Warned == \E i \in DOMAIN state.errors : IsWarning(state.errors[i])

\* C34 as stated: in a run that is over, if a stage k in 2..6 finished
\* without populating the fields the next gate requires, then all eight
\* stages were invoked, every stage from k+1 through 7 made no model call and
\* left its own precondition message, stage 8 dispatched its model call, and
\* the error log holds a Warning entry.
C34_Original ==
    pc = "returned" =>
        \A k \in 2..6 :
            LeftUnpopulated(k) =>
                /\ Len(trace) = 8
                /\ \A j \in (k + 1)..7 : TurnedAway(j)
                /\ trace[8].payload /= NoPayload
                /\ Warned

\* Some estimate entry has no estimated_probability: the sum in the check of
\* the estimates raises a KeyError, which is not a failed precondition.
DefectiveEstimates ==
    ~AllCarry(state.estimated_probabilities, "estimated_probability")

\* C34 (as amended): in a run that is over, if a stage k in 2..6 finished
\* without populating the fields the next gate requires, then either an
\* exception left stage 2 and the run ended there, or all eight stages were
\* invoked and every stage from k+1 through 7 made no model call and left a
\* message: its own precondition message, or for stage 5 on estimates with an
\* entry that has no probability, the handler's message for the KeyError.
\* Stage 8's advisory check then leaves a Warning entry and stage 8 dispatches
\* its model call unless its skill file is missing; on estimates with such
\* an entry the check's KeyError leaves stage 8 without warning and without
\* call.
C34_FailureCascade ==
    pc = "returned" =>
        \A k \in 2..6 :
            LeftUnpopulated(k) =>
                IF Faulted(2) THEN k = 2 /\ Len(trace) = 2
                ELSE
                /\ Len(trace) = 8
                /\ \A j \in (k + 1)..7 :
                       IF j = 5 /\ DefectiveEstimates
                       THEN /\ trace[5].exc = "KeyError"
                            /\ trace[5].payload = NoPayload
                            /\ "mispricing_analyst" \notin Range(modelCalls)
                            /\ \E i \in DOMAIN state.errors :
                                   state.errors[i] = "Step mispricing_analyst failed: estimated_probability"
                       ELSE TurnedAway(j)
                /\ IF DefectiveEstimates
                   THEN /\ trace[8].exc = "KeyError"
                        /\ trace[8].payload = NoPayload
                        /\ ~Warned
                   ELSE /\ Warned
                        /\ trace[8].payload /= NoPayload <=> trace[8].exc /= "FileNotFoundError"
                        /\ trace[8].payload /= NoPayload =>
                               modelCalls[Len(modelCalls)] = "final_suggester"

\* C34 witness: stage 2 could not parse the model's answer, stages 3 to 7
\* were each turned away by their precondition, and stage 8 left its warning
\* and wrote the report from its model call.
C34_Witness ==
    /\ pc = "returned"
    /\ Len(trace) = 8
    /\ trace[2].path = "parse_error"
    /\ LeftUnpopulated(2)
    /\ \A j \in 3..7 : TurnedAway(j)
    /\ Warned
    /\ modelCalls = << "market_ingestor", "market_parser", "final_suggester" >>
    /\ state.final_output = "# Research report"

\* The cascade that starts at stage 4 with an estimate that has no
\* probability and no confidence label: stage 5 and stage 8 both end on the
\* KeyError.
C34_KeyErrorCascade ==
    /\ pc = "returned"
    /\ Len(trace) = 8
    /\ trace[4].path = "parsed"
    /\ LeftUnpopulated(4)
    /\ DefectiveEstimates
    /\ trace[5].exc = "KeyError"
    /\ trace[8].exc = "KeyError"

\* Stage 1's model response was parsed with a validation status other than
\* valid, or could not be parsed.
IngestorRejected ==
    /\ Len(trace) >= 1
    /\ \/ trace[1].path = "parse_error"
       \/ /\ trace[1].path = "parsed"
          /\ Get(trace[1].resp.obj, "validation_status", None) /= "valid"

\* The validation message of stage 1's parsed response is null or empty.
BlankValidationMessage ==
    /\ trace[1].path = "parsed"
    /\ "validation_message" \in DOMAIN trace[1].resp.obj
    /\ trace[1].resp.obj.validation_message \in {None, ""}

\* C35 as stated: whenever stage 1's response parses with a status other
\* than valid, or fails to parse, the input-error field holds a value the
\* orchestrator's test takes as set, the title is unset, and the run is over
\* with stage 1 the only stage invoked, whatever the validation message
\* (missing, null or empty included).
C35_Original ==
    IngestorRejected =>
        /\ state.input_validation_error \notin {None, ""}
        /\ state.market_title = None
        /\ invoked = << "market_ingestor" >>
        /\ pc = "returned"

\* With a validation message that is missing or not empty, or a response
\* that could not be parsed, the run halts after stage 1 as claimed.
C35_HaltsOnMessage ==
    (IngestorRejected /\ ~BlankValidationMessage) =>
        /\ state.input_validation_error \notin {None, ""}
        /\ state.market_title = None
        /\ invoked = << "market_ingestor" >>
        /\ pc = "returned"

\* The response said needs_clarification with an empty message, or another
\* status with a null message, and the run went on through stage 8.
C35_RunWentOn ==
    /\ IngestorRejected
    /\ BlankValidationMessage
    /\ pc = "returned"
    /\ invoked = StageOrder
    /\ state.market_title = None
    /\ trace[2].path = "precondition"

====
